---- MODULE Spec2Model ----
(***************************************************************************)
(* Model of the repository context builder in src/ui/src/server.ts:        *)
(*   - mapWithConcurrency        (bounded concurrency executor)            *)
(*   - getTokenCountForFile      (token cache)                             *)
(*   - POST /api/repo/file-tokens (executor + cache)                       *)
(*   - RepoContextAPI.listFiles  (file discovery + ignore rules)           *)
(* JavaScript runs one continuation at a time: every action below is one   *)
(* synchronous run of code between two awaits.                             *)
(***************************************************************************)
EXTENDS Integers, Sequences, FiniteSets, TLC

\* ------------------------------------------------------------------ bounds
MaxItems == 3
MaxLimit == 3
MaxSlots == 2
MaxMtime == 2
MaxFsOps == 2

\* ------------------------------------------------------------ common helpers
Min(a, b) == IF a < b THEN a ELSE b

Max(a, b) == IF a < b THEN b ELSE a

ToSet(s) == {s[k] : k \in DOMAIN s}

SeqsUpTo(S, n) == UNION {[1..m -> S] : m \in 0..n}

\* ======================================================================
\* The filesystem and the tokenizer (collaborators)
\* ======================================================================
VARIABLES
  fs,        \* absolute path -> the file there (or NoFile)
  fsOps      \* how many times the environment has changed the filesystem

\* path.join(root, rel)
Join(root, rel) == <<root, rel>>

RepoRoot == "/repo"

RelNames == {"a.txt", "b.txt"}

FsPaths == {Join(RepoRoot, r) : r \in RelNames}

\* file contents, as UTF-16 code units ("aa", "ab", "aba")
Contents == {<<97, 97>>, <<97, 98>>, <<97, 98, 97>>}

NoFile == [exists |-> FALSE]

File(m, t) == [exists |-> TRUE, mtimeMs |-> m, content |-> t]

\* fs.stat(path): null stands for the rejection getFileStatSafe catches
NoStat == [exists |-> FALSE]

StatOf(f) ==
  IF f.exists THEN [exists |-> TRUE, mtimeMs |-> f.mtimeMs, size |-> Len(f.content)]
              ELSE NoStat

\* fs.readFile(path, 'utf8')
ReadFail == [ok |-> FALSE]

ReadOf(f) == IF f.exists THEN [ok |-> TRUE, text |-> f.content] ELSE ReadFail

\* fs.existsSync(path)
ExistsSync(p) == fs[p].exists

\* knownEncodings; get_encoding throws for any other name
KnownEncodings == {"o200k_base", "cl100k_base", "p50k_base", "p50k_edit", "r50k_base", "gpt2"}

\* the encodings requests are drawn from: two known ones and an unknown one
Encodings == {"cl100k_base", "o200k_base", "nope"}

\* number of maximal runs of equal code units in text
Runs(text) == Cardinality({k \in DOMAIN text : k = 1 \/ text[k] # text[k - 1]})

\* enc.encode(text).length: the tokenizer is deterministic in (text, encoding);
\* the two encodings split the same text differently
EncodeLength(text, enc) == IF enc = "cl100k_base" THEN Runs(text) ELSE Len(text)

\* repoAPI.countTokens(text, enc)
CountTokens(text, enc) ==
  IF enc \in KnownEncodings THEN [ok |-> TRUE, n |-> EncodeLength(text, enc)]
                            ELSE [ok |-> FALSE]

\* the environment writes a file (creating or modifying it)
FsWrite(p, m, t) ==
  /\ fsOps < MaxFsOps
  /\ fs[p] # File(m, t)
  /\ fs' = [fs EXCEPT ![p] = File(m, t)]
  /\ fsOps' = fsOps + 1

\* the environment deletes a file
FsDelete(p) ==
  /\ fsOps < MaxFsOps
  /\ fs[p].exists
  /\ fs' = [fs EXCEPT ![p] = NoFile]
  /\ fsOps' = fsOps + 1

\* the files a run starts from: absent, or written once
FsStates == {NoFile} \cup {File(1, t) : t \in Contents}

\* ======================================================================
\* getTokenCountForFile and the token cache  (server.ts 453-488)
\* ======================================================================
VARIABLES
  tokenCache,  \* the Map, as its set of entries [key, mtimeMs, size, tokens, encoding]
  calls        \* per call slot: the getTokenCountForFile invocation running there

Slots == 1..MaxSlots

NoPath == <<>>

\* pc: "idle" | "stat" (fs.stat pending) | "statted" (stat settled) |
\*     "read" (fs.readFile pending) | "readDone" (read settled) |
\*     "done" (resolved with ret) | "rejected"
\* log: the collaborators the invocation has used, in order
\* seen: while the stat result waits to be used, the file as it was when the
\* stat was performed (a history value, no part of the program's state)
IdleCall ==
  [pc |-> "idle", path |-> NoPath, enc |-> "", stat |-> NoStat, data |-> ReadFail,
   ret |-> 0, log |-> <<>>, seen |-> NoFile]

\* tokenCache.get(key): the entries under key (none: undefined)
MapGet(cache, key) == {e \in cache : e.key = key}

\* tokenCache.set that keeps the entry it should replace
MapSetKeepOld(cache, key, entry) == cache \cup {entry}

\* tokenCache.set that updates the count of the entry in place and keeps the
\* other fields of the entry it finds
MapSetMergeFields(cache, key, entry) ==
  {e \in cache : e.key # key}
    \cup (IF MapGet(cache, key) = {} THEN {entry}
          ELSE {[e EXCEPT !.tokens = entry.tokens] : e \in MapGet(cache, key)})

\* tokenCache.set(key, value)
MapSet(cache, key, entry) == {e \in cache : e.key # key} \cup {entry}

\* the hit test without the encoding comparison
CacheHitNoEncoding(cached, stat, encoding) ==
  /\ cached.mtimeMs = stat.mtimeMs
  /\ cached.size = stat.size

\* the hit test with the modification-time comparison inverted (!== for ===)
CacheHitInvertedMtime(cached, stat, encoding) ==
  /\ cached.mtimeMs # stat.mtimeMs
  /\ cached.size = stat.size
  /\ cached.encoding = encoding

\* cached.mtimeMs === stat.mtimeMs && cached.size === stat.size && cached.encoding === encoding
CacheHit(cached, stat, encoding) ==
  /\ cached.mtimeMs = stat.mtimeMs
  /\ cached.size = stat.size
  /\ cached.encoding = encoding

\* { mtimeMs: stat.mtimeMs, size: stat.size, tokens, encoding }
NewEntry(key, stat, tokens, encoding) ==
  [key |-> key, mtimeMs |-> stat.mtimeMs, size |-> stat.size, tokens |-> tokens,
   encoding |-> encoding]

\* line 471-472: the invocation starts and awaits fs.stat
BeginCall(fullPath, encoding) ==
  [IdleCall EXCEPT !.pc = "stat", !.path = fullPath, !.enc = encoding]

\* the operating system performs the stat
StatSettled(c) ==
  [c EXCEPT !.pc = "statted", !.stat = StatOf(fs[c.path]), !.log = Append(@, "stat"),
            !.seen = fs[c.path]]

\* a failed stat that is not caught: the invocation rejects
StatFailedRejects(c) == [c EXCEPT !.pc = "rejected"]

\* getFileStatSafe's catch and `if (!stat) return 0`
StatFailed(c) == [c EXCEPT !.pc = "done", !.ret = 0]

\* lines 473-481: from the settled stat to the return or to the awaited readFile
AfterStat(c, cache) ==
  LET hits == {e \in MapGet(cache, c.path) : CacheHit(e, c.stat, c.enc)}
      used == [c EXCEPT !.seen = NoFile]
  IN IF ~c.stat.exists THEN StatFailed(used)
     ELSE IF hits # {} THEN [used EXCEPT !.pc = "done", !.ret = (CHOOSE e \in hits : TRUE).tokens]
     ELSE [used EXCEPT !.pc = "read"]

\* the operating system performs the read
ReadSettled(c) == [c EXCEPT !.pc = "readDone", !.data = ReadOf(fs[c.path]), !.log = Append(@, "read")]

\* a catch block that also drops the path's entry when the read fails
AfterReadEvicting(c, cache) ==
  IF ~c.data.ok
  THEN [call |-> [c EXCEPT !.pc = "done", !.ret = 0],
        cache |-> {e \in cache : e.key # c.path}]
  ELSE LET counted == CountTokens(c.data.text, c.enc)
           logged == [c EXCEPT !.log = Append(@, "tokenize"), !.data = ReadFail]
       IN IF ~counted.ok
            THEN [call |-> [logged EXCEPT !.pc = "done", !.ret = 0], cache |-> cache]
            ELSE [call |-> [logged EXCEPT !.pc = "done", !.ret = counted.n,
                                          !.log = Append(@, "set")],
                  cache |-> MapSet(cache, c.path, NewEntry(c.path, c.stat, counted.n, c.enc))]

\* lines 481-487: from the settled read to the return; [call, cache]
AfterRead(c, cache) ==
  IF ~c.data.ok THEN [call |-> [c EXCEPT !.pc = "done", !.ret = 0], cache |-> cache]
  ELSE LET counted == CountTokens(c.data.text, c.enc)
           logged == [c EXCEPT !.log = Append(@, "tokenize"), !.data = ReadFail]
       IN IF ~counted.ok
            THEN [call |-> [logged EXCEPT !.pc = "done", !.ret = 0], cache |-> cache]
            ELSE [call |-> [logged EXCEPT !.pc = "done", !.ret = counted.n,
                                          !.log = Append(@, "set")],
                  cache |-> MapSet(cache, c.path, NewEntry(c.path, c.stat, counted.n, c.enc))]

\* a caller invokes getTokenCountForFile(fullPath, encoding, counter)
CountCall(s, p, e) ==
  /\ calls[s].pc = "idle"
  /\ \A r \in Slots : r < s => calls[r].pc # "idle"
  /\ calls' = [calls EXCEPT ![s] = BeginCall(p, e)]
  /\ UNCHANGED <<tokenCache, fs, fsOps>>

StatIO(s) ==
  /\ calls[s].pc = "stat"
  /\ calls' = [calls EXCEPT ![s] = StatSettled(calls[s])]
  /\ UNCHANGED <<tokenCache, fs, fsOps>>

StatResume(s) ==
  /\ calls[s].pc = "statted"
  /\ calls' = [calls EXCEPT ![s] = AfterStat(calls[s], tokenCache)]
  /\ UNCHANGED <<tokenCache, fs, fsOps>>

ReadIO(s) ==
  /\ calls[s].pc = "read"
  /\ calls' = [calls EXCEPT ![s] = ReadSettled(calls[s])]
  /\ UNCHANGED <<tokenCache, fs, fsOps>>

ReadResume(s) ==
  /\ calls[s].pc = "readDone"
  /\ LET r == AfterRead(calls[s], tokenCache)
     IN /\ calls' = [calls EXCEPT ![s] = r.call]
        /\ tokenCache' = r.cache
  /\ UNCHANGED <<fs, fsOps>>

EnvWrite(p, m, t) == FsWrite(p, m, t) /\ UNCHANGED <<tokenCache, calls>>

EnvDelete(p) == FsDelete(p) /\ UNCHANGED <<tokenCache, calls>>

\* the environment creates a file, or modifies one so that its size or its
\* modification time changes
EnvModify(p, m, t) ==
  /\ fs[p].exists => StatOf(File(m, t)) # StatOf(fs[p])
  /\ EnvWrite(p, m, t)

\* ======================================================================
\* mapWithConcurrency  (server.ts 490-509)
\* ======================================================================
VARIABLES
  items,     \* the items argument
  limit,     \* the limit argument
  fn,        \* the fn argument: "task" (a deterministic task) | "fileTokens"
  failing,   \* the item values on which the deterministic task rejects
  ePc,       \* "idle" | "running" | "returned" | "rejected": the call's promise
  i,         \* the shared claim counter (let i = 0)
  results,   \* the results array
  wpc,       \* per worker: "none" | "await" | "done" | "rejected"
  widx,      \* per worker: const idx of the iteration in flight
  invoked,   \* the invocations of fn so far, in order: <<idx, worker>>
  settled,   \* the indices whose task has settled, in completion order
  output     \* the array the call resolved with

execVars ==
  <<items, limit, fn, failing, ePc, i, results, wpc, widx, invoked, settled, output>>

ItemVals == {"a", "b", "c"}

Workers == 1..Max(MaxLimit, MaxSlots)

\* a slot of new Array(n) that was never assigned
Hole == [kind |-> "hole"]

\* the value undefined, assigned in the catch block
Undefined == [kind |-> "undefined"]

Val(v) == [kind |-> "value", v |-> v]

Throw == [kind |-> "throw"]

\* the deterministic task of the executor-only specification
TaskResult(item) == <<item, "done">>

TaskOutcome(item) == IF item \in failing THEN Throw ELSE Val(TaskResult(item))

\* the task of POST /api/repo/file-tokens, from its call to its first await:
\*   if (!existsSync(abs)) return { rel, tokens: 0 };
\*   const tokens = await getTokenCountForFile(abs, encoding, ...)
\* as the invocation record of the worker's slot (log <<>>: nothing was awaited)
FileTokensTask(item, encoding) ==
  IF ~ExistsSync(item.abs)
    THEN [IdleCall EXCEPT !.pc = "done", !.path = item.abs, !.enc = encoding, !.ret = 0]
    ELSE BeginCall(item.abs, encoding)

\* return { rel, tokens }: what the task resolves with once the invocation c of
\* getTokenCountForFile has settled
FileTokensOutcome(item, c) ==
  IF c.pc = "rejected" THEN Throw ELSE Val([rel |-> item.rel, tokens |-> c.ret])

\* fn(items[idx]) run up to its first await, in worker w's slot
InvokeFn(cs, w, item, encoding) ==
  IF fn = "fileTokens" THEN [cs EXCEPT ![w] = FileTokensTask(item, encoding)] ELSE cs

\* new Array(items.length)
NewArray(n) == [k \in 1..n |-> Hole]

\* one worker per item (at least one), whatever the limit
NumWorkersPerItem(lim, len) == Max(1, len)

\* Math.min(limit, Math.max(1, items.length))
NumWorkers(lim, len) == Min(lim, Max(1, len))

\* a worker whose counter is its own (let i = 0 inside worker): each worker walks
\* the whole list
WorkerLoopOwnCounter(st, w, its, encoding) ==
  LET own == IF st.wpc[w] = "none" THEN 0 ELSE st.widx[w] + 1
  IN IF own < Len(its)
       THEN [i |-> Max(st.i, own + 1),
             wpc |-> [st.wpc EXCEPT ![w] = "await"],
             widx |-> [st.widx EXCEPT ![w] = own],
             invoked |-> Append(st.invoked, <<own, w>>),
             calls |-> InvokeFn(st.calls, w, its[own + 1], encoding)]
       ELSE [st EXCEPT !.wpc[w] = "done"]

\* while (i < items.length) { const idx = i++; ... await fn(items[idx]) :
\* one worker's run from the loop test to its next await (or to its return)
WorkerLoop(st, w, its, encoding) ==
  IF st.i < Len(its)
    THEN [i |-> st.i + 1,
          wpc |-> [st.wpc EXCEPT ![w] = "await"],
          widx |-> [st.widx EXCEPT ![w] = st.i],
          invoked |-> Append(st.invoked, <<st.i, w>>),
          calls |-> InvokeFn(st.calls, w, its[st.i + 1], encoding)]
    ELSE [st EXCEPT !.wpc[w] = "done"]

\* for (let k = 0; k < n; k++) workers.push(worker()) : each worker() call runs
\* synchronously up to its first await
RECURSIVE SpawnWorkers(_, _, _, _, _)
SpawnWorkers(st, k, n, its, encoding) ==
  IF k < n THEN SpawnWorkers(WorkerLoop(st, k + 1, its, encoding), k + 1, n, its, encoding)
           ELSE st

\* results[idx] = await fn(items[idx]) without the try/catch around it
AwaitInTryNoCatch(outcome) == [threw |-> outcome.kind = "throw", value |-> outcome]

\* try { results[idx] = await fn(items[idx]) } catch (_e) { results[idx] = undefined }
\* threw: whether the exception leaves the worker; value: what is assigned
AwaitInTry(outcome) ==
  [threw |-> FALSE, value |-> IF outcome.kind = "throw" THEN Undefined ELSE outcome]

\* results[idx] = value, written in completion order instead of at idx
WriteResultPush(res, idx, v) ==
  IF \E k \in DOMAIN res : res[k] = Hole
    THEN [res EXCEPT ![CHOOSE k \in DOMAIN res :
                         res[k] = Hole /\ \A j \in 1..(k - 1) : res[j] # Hole] = v]
    ELSE res

\* results[idx] = value
WriteResult(res, idx, v) == [res EXCEPT ![idx + 1] = v]

\* Promise.race in place of Promise.all
AllFulfilledRace(pcs, n) == \E w \in 1..n : pcs[w] = "done"

\* Promise.all over a pool of which only n promises were ever started
AllFulfilledWholePool(pcs, n) == \A w \in DOMAIN pcs : pcs[w] = "done"

\* Promise.all(workers) fulfils when every worker promise has fulfilled
AllFulfilled(pcs, n) == \A w \in 1..n : pcs[w] = "done"

\* Promise.all(workers) rejects as soon as one worker promise rejects
AnyRejected(pcs, n) == \E w \in 1..n : pcs[w] = "rejected"

\* lines 491-506: the synchronous part of mapWithConcurrency(its, lim, fn)
StartExec(its, lim, encoding) ==
  /\ ePc = "idle"
  /\ LET n == NumWorkers(lim, Len(its))
         st == SpawnWorkers([i |-> 0, wpc |-> wpc, widx |-> widx, invoked |-> <<>>,
                             calls |-> calls], 0, n, its, encoding)
     IN /\ i' = st.i
        /\ wpc' = st.wpc
        /\ widx' = st.widx
        /\ invoked' = st.invoked
        /\ calls' = st.calls
  /\ items' = its
  /\ limit' = lim
  /\ results' = NewArray(Len(its))
  /\ ePc' = "running"
  /\ UNCHANGED <<fn, failing, settled, output, tokenCache>>

\* the continuation of worker w after its awaited task settled with outcome
WorkerResume(w, outcome, encoding) ==
  LET r == AwaitInTry(outcome)
      st == [i |-> i, wpc |-> wpc, widx |-> widx, invoked |-> invoked, calls |-> calls]
      nx == IF r.threw THEN [st EXCEPT !.wpc[w] = "rejected"]
                       ELSE WorkerLoop(st, w, items, encoding)
  IN /\ results' = IF r.threw THEN results ELSE WriteResult(results, widx[w], r.value)
     /\ i' = nx.i
     /\ wpc' = nx.wpc
     /\ widx' = nx.widx
     /\ invoked' = nx.invoked
     /\ calls' = nx.calls
     /\ settled' = Append(settled, widx[w])
     /\ UNCHANGED <<items, limit, fn, failing, ePc, output, tokenCache>>

\* mapWithConcurrency(items, limit, task) is called
ExecStart ==
  /\ fn = "task"
  /\ StartExec(items, limit, "")

\* the deterministic task a worker awaits settles, and the worker runs to its
\* next await
TaskSettle(w) ==
  /\ fn = "task"
  /\ ePc # "idle"
  /\ wpc[w] = "await"
  /\ WorkerResume(w, TaskOutcome(items[widx[w] + 1]), "")

\* await Promise.all(workers); return results
ExecReturn ==
  /\ ePc = "running"
  /\ LET n == NumWorkers(limit, Len(items))
     IN /\ AnyRejected(wpc, n) \/ AllFulfilled(wpc, n)
        /\ ePc' = IF AnyRejected(wpc, n) THEN "rejected" ELSE "returned"
        /\ output' = IF AnyRejected(wpc, n) THEN output ELSE results
  /\ UNCHANGED <<items, limit, fn, failing, i, results, wpc, widx, invoked, settled>>
  /\ UNCHANGED <<tokenCache, calls>>

\* ======================================================================
\* POST /api/repo/file-tokens  (server.ts 703-729)
\* ======================================================================
VARIABLES
  hPc,       \* "idle" | "mapping" | "responded"
  reqFiles,  \* body.files
  reqEnc,    \* body.encoding || 'cl100k_base'
  response   \* the JSON response

handlerVars == <<hPc, reqFiles, reqEnc, response>>

\* mapWithConcurrency(filePaths, 16, ...)
FileTokensLimit == 16

NoResponse == [status |-> 0]

\* files.map(f => ({ rel: f, abs: join(repoAPI.repositoryPath, f) }))
FilePaths(files) == [k \in DOMAIN files |-> [rel |-> files[k], abs |-> Join(RepoRoot, files[k])]]

\* for (const c of counts) { if (!c) continue; tokenCounts[c.rel] = c.tokens;
\*                           totalTokens += c.tokens }
RECURSIVE SumCounts(_, _, _)
SumCounts(counts, k, acc) ==
  IF k > Len(counts) THEN acc
  ELSE IF counts[k].kind # "value" THEN SumCounts(counts, k + 1, acc)
  ELSE SumCounts(counts, k + 1,
         [tokenCounts |-> [r \in DOMAIN acc.tokenCounts \cup {counts[k].v.rel} |->
                             IF r = counts[k].v.rel THEN counts[k].v.tokens
                                                    ELSE acc.tokenCounts[r]],
          totalTokens |-> acc.totalTokens + counts[k].v.tokens])

\* lines 705-711: the request arrives and mapWithConcurrency starts
HandlerStart ==
  /\ hPc = "idle"
  /\ fn = "fileTokens"
  /\ StartExec(FilePaths(reqFiles), FileTokensLimit, reqEnc)
  /\ hPc' = "mapping"
  /\ UNCHANGED <<reqFiles, reqEnc, response>>

\* the invocation of getTokenCountForFile (or the early return) a worker awaits
\* has settled: the task returns { rel, tokens } and the worker runs to its
\* next await
TaskDone(w) ==
  /\ fn = "fileTokens"
  /\ ePc # "idle"
  /\ wpc[w] = "await"
  /\ calls[w].pc \in {"done", "rejected"}
  /\ WorkerResume(w, FileTokensOutcome(items[widx[w] + 1], calls[w]), reqEnc)

\* lines 717-728: the counts are summed and the response is sent
Respond ==
  /\ hPc = "mapping"
  /\ ePc \in {"returned", "rejected"}
  /\ response' =
       IF ePc = "rejected" THEN [status |-> 500]
       ELSE LET sum == SumCounts(output, 1, [tokenCounts |-> <<>>, totalTokens |-> 0])
            IN [status |-> 200, tokenCounts |-> sum.tokenCounts,
                totalTokens |-> sum.totalTokens, cached |-> TRUE]
  /\ hPc' = "responded"
  /\ UNCHANGED <<reqFiles, reqEnc>>

\* ======================================================================
\* RepoContextAPI.loadIgnorePatterns and listFiles  (server.ts 109-195)
\* Paths, glob matches and ignore rules are strings, kept as sequences of
\* UTF-16 code units: Array.prototype.sort compares them unit by unit.
\* ======================================================================
MaxFiles == 3

MaxPatterns == 2

MaxIgnoreLines == 1

MaxListCalls == 2

VARIABLES
  tree,       \* the files under the repository root, by relative path
  gitignore,  \* <repoPath>/.gitignore: absent, unreadable, or its lines
  patterns,   \* the argument of listFiles
  lPc,        \* "idle" | "loading" | "glob" | "returned" | "rejected"
  ig,         \* the rules added to the ignore() matcher, in order
  allFiles,   \* const allFiles = []
  pIdx,       \* position of the for..of loop over patterns (1-based)
  failedLog,  \* positions whose glob call threw (each one logged)
  history     \* the listFiles calls that have returned: [result, failed]

listVars == <<tree, gitignore, patterns, lPc, ig, allFiles, pIdx, failedLog, history>>

\* lines 113-127: the built-in ignore rules
DefaultRules ==
  <<
    <<110, 111, 100, 101, 95, 109, 111, 100, 117, 108, 101, 115, 47>>,  \* node_modules/
    <<46, 103, 105, 116, 47>>,  \* .git/
    <<46, 68, 83, 95, 83, 116, 111, 114, 101>>,  \* .DS_Store
    <<42, 46, 108, 111, 103>>,  \* *.log
    <<100, 105, 115, 116, 47>>,  \* dist/
    <<98, 117, 105, 108, 100, 47>>,  \* build/
    <<99, 111, 118, 101, 114, 97, 103, 101, 47>>,  \* coverage/
    <<46, 110, 121, 99, 95, 111, 117, 116, 112, 117, 116, 47>>,  \* .nyc_output/
    <<42, 46, 116, 109, 112>>,  \* *.tmp
    <<42, 46, 116, 101, 109, 112>>,  \* *.temp
    <<95, 95, 112, 121, 99, 97, 99, 104, 101, 95, 95, 47>>,  \* __pycache__/
    <<42, 46, 112, 121, 99>>,  \* *.pyc
    <<46, 112, 121, 116, 101, 115, 116, 95, 99, 97, 99, 104, 101, 47>>  \* .pytest_cache/
  >>

\* lines 151-167: globOptions.ignore, '**/<dir>/**' for each of these dirs
GlobIgnoreDirs ==
  {
    <<110, 111, 100, 101, 95, 109, 111, 100, 117, 108, 101, 115>>,  \* node_modules
    <<46, 103, 105, 116>>,  \* .git
    <<100, 105, 115, 116>>,  \* dist
    <<98, 117, 105, 108, 100>>,  \* build
    <<46, 110, 101, 120, 116>>,  \* .next
    <<99, 111, 118, 101, 114, 97, 103, 101>>,  \* coverage
    <<95, 95, 112, 121, 99, 97, 99, 104, 101, 95, 95>>,  \* __pycache__
    <<118, 101, 110, 118>>,  \* venv
    <<116, 97, 114, 103, 101, 116>>,  \* target
    <<46, 116, 117, 114, 98, 111>>,  \* .turbo
    <<46, 121, 97, 114, 110>>,  \* .yarn
    <<98, 111, 119, 101, 114, 95, 99, 111, 109, 112, 111, 110, 101, 110, 116, 115>>,  \* bower_components
    <<46, 99, 97, 99, 104, 101>>,  \* .cache
    <<46, 110, 112, 109>>,  \* .npm
    <<46, 112, 110, 112, 109>>  \* .pnpm
  }

\* the files a repository is drawn from
FileUniverse ==
  {
    <<97, 46, 116, 115>>,  \* a.ts
    <<90, 46, 116, 115>>,  \* Z.ts
    <<100, 46, 108, 111, 103>>,  \* d.log
    <<115, 47, 98, 46, 116, 115>>,  \* s/b.ts
    <<100, 105, 115, 116, 47, 120>>,  \* dist/x
    <<46, 110, 121, 99, 95, 111, 117, 116, 112, 117, 116, 47, 120>>  \* .nyc_output/x
  }

\* the lines a .gitignore is drawn from
IgnoreLines ==
  {
    <<42, 46, 116, 115>>,  \* *.ts
    <<33, 42, 46, 108, 111, 103>>,  \* !*.log
    <<33, 46, 110, 121, 99, 95, 111, 117, 116, 112, 117, 116, 47>>,  \* !.nyc_output/
    <<33, 100, 105, 115, 116, 47>>,  \* !dist/
    <<115, 47>>  \* s/
  }

\* the patterns a caller passes; '**/*' is the default argument. listFiles has
\* no other caller-supplied input: a caller's '!' pattern goes to glob as well
CallerPatterns == {"**/*", "**/*.ts", "s/**", "!*.ts"}

NoIgnoreFile == [exists |-> FALSE]

UnreadableIgnoreFile == [exists |-> TRUE, readable |-> FALSE]

IgnoreFile(ls) == [exists |-> TRUE, readable |-> TRUE, lines |-> ls]

\* path.split('/')
RECURSIVE Split(_)
Split(p) ==
  IF \E k \in DOMAIN p : p[k] = 47
  THEN LET k == CHOOSE k \in DOMAIN p : p[k] = 47 /\ \A j \in 1..(k - 1) : p[j] # 47
       IN <<SubSeq(p, 1, k - 1)>> \o Split(SubSeq(p, k + 1, Len(p)))
  ELSE <<p>>

Basename(p) == Split(p)[Len(Split(p))]

\* the directories above a file, outermost first
ParentDirs(p) == SubSeq(Split(p), 1, Len(Split(p)) - 1)

EndsWith(s, suffix) ==
  /\ Len(suffix) <= Len(s)
  /\ SubSeq(s, Len(s) - Len(suffix) + 1, Len(s)) = suffix

\* ---- the ignore() matcher (gitignore rules; none of the rules here has a
\* ---- slash inside, so each one is tested against a single path component)
IsNegation(rule) == Len(rule) > 0 /\ rule[1] = 33

IsDirOnly(rule) == Len(rule) > 0 /\ rule[Len(rule)] = 47

\* the rule without its leading '!' and its trailing '/'
RuleBody(rule) ==
  SubSeq(rule, IF IsNegation(rule) THEN 2 ELSE 1,
               IF IsDirOnly(rule) THEN Len(rule) - 1 ELSE Len(rule))

\* '*suffix' matches any name ending in suffix; any other body matches itself
NameMatches(body, name) ==
  IF Len(body) > 0 /\ body[1] = 42 THEN EndsWith(name, Tail(body))
                                   ELSE name = body

RuleMatches(rule, name, isDir) ==
  /\ IsDirOnly(rule) => isDir
  /\ NameMatches(RuleBody(rule), name)

\* the last rule that matches decides; a negated rule re-includes
TestOne(rules, name, isDir) ==
  LET hits == {k \in DOMAIN rules : RuleMatches(rules[k], name, isDir)}
  IN IF hits = {} THEN FALSE
     ELSE ~IsNegation(rules[CHOOSE k \in hits : \A j \in hits : j <= k])

\* ig.ignores(file): a file under an ignored directory is ignored, whatever
\* the rules say about the file itself
Ignores(rules, file) ==
  \/ \E k \in DOMAIN ParentDirs(file) : TestOne(rules, ParentDirs(file)[k], TRUE)
  \/ TestOne(rules, Basename(file), FALSE)

\* ---- glob(pattern, globOptions): nodir and dot: true make every file of the
\* ---- tree a candidate (every path here is shallower than maxDepth: 10)
GlobMatches(pattern, file) ==
  CASE pattern = "**/*" -> TRUE
    [] pattern = "**/*.ts" -> EndsWith(Basename(file), <<46, 116, 115>>)
    [] pattern = "s/**" -> Len(Split(file)) > 1 /\ Split(file)[1] = <<115>>
    [] pattern = "!*.ts" -> \* glob reads a leading '!' as a literal character
         /\ Len(Split(file)) = 1
         /\ file[1] = 33
         /\ EndsWith(file, <<46, 116, 115>>)

\* globOptions.ignore
GlobIgnored(file) == \E k \in DOMAIN ParentDirs(file) : ParentDirs(file)[k] \in GlobIgnoreDirs

\* what glob(pattern, globOptions) finds in the tree
Candidates(files, pattern) ==
  {f \in files : GlobMatches(pattern, f) /\ ~GlobIgnored(f)}

\* the arrays glob may resolve with: the candidates in any order
Orderings(S) ==
  {m \in [1..Cardinality(S) -> S] : \A a, b \in DOMAIN m : a # b => m[a] # m[b]}

\* ---- lines 190-192
\* [...new Set(allFiles)]: each value once, at its first position
RECURSIVE Dedupe(_)
Dedupe(s) ==
  IF s = <<>> THEN <<>>
  ELSE LET front == Dedupe(SubSeq(s, 1, Len(s) - 1))
       IN IF s[Len(s)] \in ToSet(front) THEN front ELSE Append(front, s[Len(s)])

\* a < b as Array.prototype.sort compares two strings: by code units
LexLess(a, b) ==
  \E k \in 1..(Min(Len(a), Len(b)) + 1) :
    /\ \A j \in 1..(k - 1) : a[j] = b[j]
    /\ \/ k > Len(a) /\ k <= Len(b)
       \/ k <= Len(a) /\ k <= Len(b) /\ a[k] < b[k]

\* x put into the sorted s, behind the elements that are not greater
Insert(s, x) ==
  LET n == Cardinality({k \in DOMAIN s : ~LexLess(x, s[k])})
  IN SubSeq(s, 1, n) \o <<x>> \o SubSeq(s, n + 1, Len(s))

\* the array left in the order it was collected in
SortUnsorted(s) == s

\* .sort()
RECURSIVE Sort(_)
Sort(s) ==
  IF s = <<>> THEN <<>>
  ELSE Insert(Sort(SubSeq(s, 1, Len(s) - 1)), s[Len(s)])

\* const uniqueFiles = [...new Set(allFiles)].filter(f => !ig.ignores(f)).sort()
UniqueFiles(all, rules) ==
  Sort(SelectSeq(Dedupe(all), LAMBDA f : ~Ignores(rules, f)))

\* a catch that throws the pattern's error on
InnerCatchRethrows == "rethrow"

\* lines 178-181: the catch around one pattern logs and goes on
InnerCatch == "continue"

\* the call returns r
ListReturn(r, failed) ==
  /\ lPc' = "returned"
  /\ history' = Append(history, [result |-> r, failed |-> failed])

\* the for..of loop after pattern k is dealt with, with all collected so far:
\* the next glob call, or lines 190-194 when there is no pattern left
LoopFrom(k, all, failed) ==
  /\ allFiles' = all
  /\ failedLog' = failed
  /\ IF k < Len(patterns)
     THEN /\ pIdx' = k + 1
          /\ lPc' = "glob"
          /\ UNCHANGED history
     ELSE /\ ListReturn(UniqueFiles(all, ig'), failed)
          /\ UNCHANGED pIdx

\* listFiles(patterns) is called: loadIgnorePatterns runs up to its return or
\* to its await of fs.readFile
ListStart ==
  /\ lPc \in {"idle", "returned"}
  /\ Len(history) < MaxListCalls
  /\ lPc' = "loading"
  /\ ig' = DefaultRules
  /\ allFiles' = <<>>
  /\ pIdx' = 0
  /\ failedLog' = {}
  /\ UNCHANGED <<tree, gitignore, patterns, history>>

\* loadIgnorePatterns settles: the .gitignore lines are added behind the
\* defaults, or the readFile rejection rejects listFiles (nothing catches it);
\* then the loop starts
IgnoreLoaded ==
  /\ lPc = "loading"
  /\ IF gitignore.exists /\ ~gitignore.readable
     THEN /\ lPc' = "rejected"
          /\ UNCHANGED <<ig, allFiles, pIdx, failedLog, history>>
     ELSE /\ ig' = IF gitignore.exists THEN ig \o gitignore.lines ELSE ig
          /\ LoopFrom(0, <<>>, {})
  /\ UNCHANGED <<tree, gitignore, patterns>>

\* await glob(pattern, globOptions) resolves with matches: they are pushed
GlobResolves(matches) ==
  /\ lPc = "glob"
  /\ matches \in Orderings(Candidates(tree, patterns[pIdx]))
  /\ UNCHANGED <<tree, gitignore, patterns, ig>>
  /\ LoopFrom(pIdx, allFiles \o matches, failedLog)

\* await glob(pattern, globOptions) rejects
GlobRejects ==
  /\ lPc = "glob"
  /\ UNCHANGED <<tree, gitignore, patterns, ig>>
  /\ IF InnerCatch = "continue"
     THEN LoopFrom(pIdx, allFiles, failedLog \cup {pIdx})
     ELSE \* lines 183-187: the outer catch returns []
          /\ ListReturn(<<>>, failedLog \cup {pIdx})
          /\ failedLog' = failedLog \cup {pIdx}
          /\ UNCHANGED <<allFiles, pIdx>>

\* ======================================================================
\* RepoContextAPI.generateFileTree  (server.ts 197-218)
\* A JavaScript object or array is a record: the array elements (items), the
\* own property names in insertion order (keys) and their values (props).
\* ======================================================================
MaxTreeFiles == 3

MaxDepth == 2

MaxFormatCalls == 2

VARIABLES
  tFiles,  \* the argument of generateFileTree: a sorted list of paths
  tPc,     \* "idle" | "done"
  tOut,    \* the tree returned, or the TypeError thrown
  tTexts   \* what the formatFileTreeString(tFiles) calls so far returned or threw

treeVars == <<tFiles, tPc, tOut, tTexts>>

\* the property the tree keeps a directory's file names under
FilesKey == <<95, 102, 105, 108, 101, 115>>

\* the names path segments are drawn from: a, b, _files
SegmentNames == {<<97>>, <<98>>, <<95, 102, 105, 108, 101, 115>>}

\* const tree = {} / current[part] = {}
EmptyObject == [isArray |-> FALSE, items |-> <<>>, keys |-> <<>>, props |-> <<>>]

\* current._files = []
EmptyArray == [isArray |-> TRUE, items |-> <<>>, keys |-> <<>>, props |-> <<>>]

\* node[key] is truthy (objects and arrays are the only values stored)
HasProp(node, key) == key \in DOMAIN node.props

\* node[key] = value
SetProp(node, key, value) ==
  [node EXCEPT
     !.keys = IF HasProp(node, key) THEN @ ELSE Append(@, key),
     !.props = [k \in DOMAIN @ \cup {key} |-> IF k = key THEN value ELSE @[k]]]

Threw == [ok |-> FALSE]

Built(node) == [ok |-> TRUE, node |-> node]

\* current._files.push(part): defined for an array only
Push(node, part) ==
  IF node.isArray THEN Built([node EXCEPT !.items = Append(@, part)]) ELSE Threw

\* parts.forEach((part, index) => ...) from current on: the node current
\* becomes, or the TypeError of a push on something that is no array
RECURSIVE AddParts(_, _)
AddParts(current, parts) ==
  IF Len(parts) = 1
  THEN LET pushed == Push(IF HasProp(current, FilesKey) THEN current.props[FilesKey]
                                                        ELSE EmptyArray, parts[1])
       IN IF pushed.ok THEN Built(SetProp(current, FilesKey, pushed.node)) ELSE Threw
  ELSE LET child == IF HasProp(current, parts[1]) THEN current.props[parts[1]]
                                                  ELSE EmptyObject
           below == AddParts(child, Tail(parts))
       IN IF below.ok THEN Built(SetProp(current, parts[1], below.node)) ELSE Threw

\* files.forEach(file => ...) from the k-th file on
RECURSIVE AddFiles(_, _, _)
AddFiles(root, files, k) ==
  IF k > Len(files) THEN Built(root)
  ELSE LET added == AddParts(root, Split(files[k]))
       IN IF added.ok THEN AddFiles(added.node, files, k + 1) ELSE Threw

\* generateFileTree(files)
GenerateFileTree(files) == AddFiles(EmptyObject, files, 1)

\* how formatNode reads a node: node._files || [] are its files, every other
\* own property is a subdirectory
NodeFiles(node) ==
  IF HasProp(node, FilesKey) /\ node.props[FilesKey].isArray
  THEN node.props[FilesKey].items ELSE <<>>

NodeDirs(node) == {k \in DOMAIN node.props : k # FilesKey}

\* the paths read back from a tree, below the directory path prefix
RECURSIVE Flatten(_, _)
Flatten(node, prefix) ==
  {prefix \o NodeFiles(node)[k] : k \in DOMAIN NodeFiles(node)}
  \cup UNION {Flatten(node.props[d], prefix \o d \o <<47>>) : d \in NodeDirs(node)}

RECURSIVE SumOver(_, _)
SumOver(f, S) ==
  IF S = {} THEN 0
  ELSE LET x == CHOOSE x \in S : TRUE IN f[x] + SumOver(f, S \ {x})

\* how many file entries a tree holds
RECURSIVE FlattenCount(_)
FlattenCount(node) ==
  Len(NodeFiles(node))
  + SumOver([d \in NodeDirs(node) |-> FlattenCount(node.props[d])], NodeDirs(node))

\* the paths of at most depth segments
RECURSIVE PathsOfDepth(_)
PathsOfDepth(depth) ==
  IF depth = 1 THEN SegmentNames
  ELSE {d \o <<47>> \o p : d \in SegmentNames, p \in PathsOfDepth(depth - 1)}

PathUniverse == UNION {PathsOfDepth(d) : d \in 1..MaxDepth}

\* the paths of a set as listFiles returns them: sorted, each one once
RECURSIVE SortedList(_)
SortedList(S) ==
  IF S = {} THEN <<>>
  ELSE LET x == CHOOSE x \in S : \A y \in S \ {x} : LexLess(x, y)
       IN <<x>> \o SortedList(S \ {x})

\* generateFileTree(files) is called and returns or throws
GenerateTree ==
  /\ tPc = "idle"
  /\ tOut' = GenerateFileTree(tFiles)
  /\ tPc' = "done"
  /\ UNCHANGED <<tFiles, tTexts>>

\* ======================================================================
\* RepoContextAPI.generateContext  (server.ts 272-360)
\* ======================================================================
MaxRequested == 2

MaxBudget == 3

VARIABLES
  cPc,         \* "idle" | "spawned" | "returned" | "rejected"
  cFiles,      \* the files argument
  cEncoding,   \* options.encoding
  cMaxTokens,  \* options.maxTokens
  cResolved,   \* const resolvedFiles = []
  cMissing,    \* const missingFiles = []
  cChild,      \* how the promptcode child process ended
  cOut         \* what generateContext returned, or the error it threw

ctxVars == <<cPc, cFiles, cEncoding, cMaxTokens, cResolved, cMissing, cChild, cOut>>

\* an optional field or argument: undefined, or a value
NoOption == [given |-> FALSE]

Given(v) == [given |-> TRUE, v |-> v]

\* const maxTokens = options.maxTokens || 128000
DefaultMaxTokens == 128000

\* a || b for a number a that may be undefined
OrDefault(opt, default) == IF opt.given /\ opt.v # 0 THEN opt.v ELSE default

\* countTokens(text, encoding = 'cl100k_base') called with an optional encoding
CountTokensOpt(text, opt) == CountTokens(text, IF opt.given THEN opt.v ELSE "cl100k_base")

NoOutcome == [kind |-> "none"]

ThrewError(message) == [kind |-> "threw", message |-> message]

\* the child has not ended
ChildRunning == [ended |-> FALSE]

\* the 'close' event with an exit code and the text on stdout, or 'error'
ChildClosed(code, stdout) == [ended |-> TRUE, event |-> "close", code |-> code, stdout |-> stdout]

ChildError == [ended |-> TRUE, event |-> "error"]

\* the ways the child can end: exit 0 with some text, exit 1, failure to spawn
ChildOutcomes ==
  {ChildClosed(0, t) : t \in Contents} \cup {ChildClosed(1, <<>>), ChildError}

\* lines 327-334: the files that exist under the root, in request order
ResolvedFiles(files) == SelectSeq(files, LAMBDA f : ExistsSync(Join(RepoRoot, f)))

\* lines 327-334: the files that do not, in request order
MissingFiles(files) == SelectSeq(files, LAMBDA f : ~ExistsSync(Join(RepoRoot, f)))

\* a check that gives up as soon as one file is missing
AnyFileMissing(resolved, missing) == Len(missing) > 0

\* line 336: if (resolvedFiles.length === 0)
NoValidFiles(resolved, missing) == Len(resolved) = 0

\* lines 346-359: the object generateContext returns for the child's output
ContextResult(stdout, tokenCount) ==
  [kind |-> "returned",
   output |-> stdout,
   tokenCount |-> tokenCount,
   fileCount |-> Len(cResolved),
   isOverLimit |-> tokenCount > OrDefault(cMaxTokens, DefaultMaxTokens),
   maxTokens |-> OrDefault(cMaxTokens, DefaultMaxTokens),
   files |-> cResolved,
   missingFiles |-> cMissing]

\* lines 322-343: generateContext is called; it throws when no file exists,
\* otherwise it spawns promptcode and awaits it
CtxStart ==
  /\ cPc = "idle"
  /\ cResolved' = ResolvedFiles(cFiles)
  /\ cMissing' = MissingFiles(cFiles)
  /\ IF NoValidFiles(cResolved', cMissing')
     THEN /\ cPc' = "rejected"
          /\ cOut' = ThrewError("No valid files to process")
     ELSE /\ cPc' = "spawned"
          /\ cOut' = NoOutcome
  /\ UNCHANGED <<cFiles, cEncoding, cMaxTokens, cChild>>

\* lines 308-318 and 340-359: the child ends; runPromptCode rejects, or it
\* resolves and generateContext counts the tokens of the output and returns
CtxChildEnds(outcome) ==
  /\ cPc = "spawned"
  /\ outcome \in ChildOutcomes
  /\ cChild' = outcome
  /\ IF outcome.event = "error"
     THEN cPc' = "rejected" /\ cOut' = ThrewError("Failed to spawn PromptCode")
     ELSE IF outcome.code # 0
     THEN cPc' = "rejected" /\ cOut' = ThrewError("PromptCode failed")
     ELSE LET counted == CountTokensOpt(outcome.stdout, cEncoding)
          IN IF counted.ok
             THEN cPc' = "returned" /\ cOut' = ContextResult(outcome.stdout, counted.n)
             ELSE cPc' = "rejected" /\ cOut' = ThrewError("unknown encoding")
  /\ UNCHANGED <<cFiles, cEncoding, cMaxTokens, cResolved, cMissing>>

\* ======================================================================
\* RepoContextAPI.formatFileTreeString and generateCompletePrompt
\* (server.ts 220-265, 362-421). Texts are sequences of UTF-16 code units.
\* ======================================================================
MaxMeta == 2

VARIABLES
  pPc,        \* "idle" | "listing" | "reading" | "returned" | "rejected"
  pFiles,     \* the files argument
  pUser,      \* userInstructions
  pMeta,      \* metaPrompts: a list of { name, content }
  pEncoding,  \* encoding
  pAll,       \* const allFiles = await this.listFiles()
  fIdx,       \* position of the for..of loop over files (1-based)
  pPrompt,    \* let completePrompt
  pReads,     \* per requested file looked at so far: what became of it
  pOut        \* what generateCompletePrompt returned, or that it threw

promptVars == <<pPc, pFiles, pUser, pMeta, pEncoding, pAll, fIdx, pPrompt, pReads, pOut>>

\* '└── '
BranchLast == <<9492, 9472, 9472, 32>>

\* '├── '
BranchMid == <<9500, 9472, 9472, 32>>

\* '    '
IndentLast == <<32, 32, 32, 32>>

\* '│   '
IndentMid == <<9474, 32, 32, 32>>

\* '<file_map>\n'
FileMapOpen == <<60, 102, 105, 108, 101, 95, 109, 97, 112, 62, 10>>

\* '</file_map>\n\n'
FileMapClose == <<60, 47, 102, 105, 108, 101, 95, 109, 97, 112, 62, 10, 10>>

\* '<file_contents>\n'
FileContentsOpen == <<60, 102, 105, 108, 101, 95, 99, 111, 110, 116, 101, 110, 116, 115, 62, 10>>

\* '</file_contents>\n\n'
FileContentsClose == <<60, 47, 102, 105, 108, 101, 95, 99, 111, 110, 116, 101, 110, 116, 115, 62, 10, 10>>

\* 'File: '
FileLabel == <<70, 105, 108, 101, 58, 32>>

\* '```\n'
FenceOpen == <<96, 96, 96, 10>>

\* '\n```\n\n'
FenceClose == <<10, 96, 96, 96, 10, 10>>

\* '<meta prompt '
MetaOpen == <<60, 109, 101, 116, 97, 32, 112, 114, 111, 109, 112, 116, 32>>

\* ' = "'
MetaNameOpen == <<32, 61, 32, 34>>

\* '">\n'
MetaNameClose == <<34, 62, 10>>

\* '\n</meta prompt '
MetaClose == <<10, 60, 47, 109, 101, 116, 97, 32, 112, 114, 111, 109, 112, 116, 32>>

\* '>\n\n'
MetaEnd == <<62, 10, 10>>

\* '<user_instructions>\n'
UserOpen == <<60, 117, 115, 101, 114, 95, 105, 110, 115, 116, 114, 117, 99, 116, 105, 111, 110, 115, 62, 10>>

\* '\n</user_instructions>\n'
UserClose == <<10, 60, 47, 117, 115, 101, 114, 95, 105, 110, 115, 116, 114, 117, 99, 116, 105, 111, 110, 115, 62, 10>>

\* '\n'
Newline == <<10>>

\* the code units of the path strings of the model
TextOf(s) ==
  CASE s = "/repo" -> <<47, 114, 101, 112, 111>>
    [] s = "a.txt" -> <<97, 46, 116, 120, 116>>
    [] s = "b.txt" -> <<98, 46, 116, 120, 116>>

\* `${n}` for a number n
RECURSIVE DecimalText(_)
DecimalText(n) ==
  IF n < 10 THEN <<48 + n>> ELSE DecimalText(n \div 10) \o <<48 + (n % 10)>>

\* the texts files hold here: 'a', and a fence of three backticks
PromptContents == {<<97>>, <<96, 96, 96>>}

\* the meta prompts requests are drawn from; the second name has a quote in it
MetaPrompts ==
  {[name |-> <<109>>, content |-> <<120>>],
   [name |-> <<113, 34>>, content |-> <<60, 47>>]}

\* the user instructions requests are drawn from: '' and 'go'
UserInstructions == {<<>>, <<103, 111>>}

\* Object.entries(node).filter(([k]) => k !== '_files'), in insertion order
DirKeys(node) == SelectSeq(node.keys, LAMBDA k : k # FilesKey)

\* formatNode can walk the node: each _files it meets is absent or an array
RECURSIVE Renderable(_)
Renderable(node) ==
  /\ HasProp(node, FilesKey) => node.props[FilesKey].isArray
  /\ \A d \in NodeDirs(node) : Renderable(node.props[d])

RECURSIVE FormatNode(_, _)
RECURSIVE FormatEntries(_, _, _)
\* lines 245-253: the directories of node from the k-th one on
FormatEntries(node, prefix, k) ==
  IF k > Len(DirKeys(node)) THEN <<>>
  ELSE LET name == DirKeys(node)[k]
           isLastEntry == k = Len(DirKeys(node)) /\ Len(NodeFiles(node)) = 0
       IN prefix \o (IF isLastEntry THEN BranchLast ELSE BranchMid) \o name \o <<47>> \o Newline
          \o FormatNode(node.props[name],
                        prefix \o (IF isLastEntry THEN IndentLast ELSE IndentMid))
          \o FormatEntries(node, prefix, k + 1)

\* lines 256-260: the files of a node from the k-th one on
RECURSIVE FormatFiles(_, _, _)
FormatFiles(names, prefix, k) ==
  IF k > Len(names) THEN <<>>
  ELSE prefix \o (IF k = Len(names) THEN BranchLast ELSE BranchMid) \o names[k] \o Newline
       \o FormatFiles(names, prefix, k + 1)

\* formatNode(node, prefix)
FormatNode(node, prefix) ==
  FormatEntries(node, prefix, 1) \o FormatFiles(NodeFiles(node), prefix, 1)

NoText == [ok |-> FALSE]

SomeText(t) == [ok |-> TRUE, text |-> t]

\* formatFileTreeString(files): the same tree as generateFileTree, rendered
FormatFileTreeString(files) ==
  LET built == AddFiles(EmptyObject, files, 1)
  IN IF built.ok /\ Renderable(built.node) THEN SomeText(FormatNode(built.node, <<>>))
     ELSE NoText

\* formatFileTreeString(tFiles) is called and returns or throws
FormatTree ==
  /\ Len(tTexts) < MaxFormatCalls
  /\ tTexts' = Append(tTexts, FormatFileTreeString(tFiles))
  /\ UNCHANGED <<tFiles, tPc, tOut>>

\* lines 375-382: the text up to the first file
PromptHead(treeText) ==
  FileMapOpen \o TextOf(RepoRoot) \o Newline \o treeText \o FileMapClose \o FileContentsOpen

\* text with a backslash put before every backtick
RECURSIVE EscapeFences(_)
EscapeFences(text) ==
  IF text = <<>> THEN <<>>
  ELSE (IF text[1] = 96 THEN <<92, 96>> ELSE <<text[1]>>) \o EscapeFences(Tail(text))

\* a file block whose content is escaped
FileBlockEscaped(file, content) ==
  FileLabel \o TextOf(file) \o Newline \o FenceOpen \o EscapeFences(content) \o FenceClose

\* lines 388-391: what one file that was read adds
FileBlock(file, content) ==
  FileLabel \o TextOf(file) \o Newline \o FenceOpen \o content \o FenceClose

\* lines 400-404: the meta prompts from the k-th one on
RECURSIVE MetaBlocks(_, _)
MetaBlocks(metaPrompts, k) ==
  IF k > Len(metaPrompts) THEN <<>>
  ELSE MetaOpen \o DecimalText(k) \o MetaNameOpen \o metaPrompts[k].name \o MetaNameClose
       \o metaPrompts[k].content
       \o MetaClose \o DecimalText(k) \o MetaEnd
       \o MetaBlocks(metaPrompts, k + 1)

\* lines 397-409: the text behind the last file
PromptTail(metaPrompts, userInstructions) ==
  FileContentsClose \o MetaBlocks(metaPrompts, 1)
  \o UserOpen \o userInstructions \o UserClose

\* lines 412-420: the tokens of the whole text are counted and the result is
\* returned; an encoding the tokenizer does not know makes the call reject
PromptFinish(text) ==
  LET counted == CountTokens(text, pEncoding)
  IN /\ pPrompt' = text
     /\ IF counted.ok
        THEN /\ pPc' = "returned"
             /\ pOut' = [kind |-> "returned",
                         prompt |-> text,
                         tokenCount |-> counted.n,
                         fileCount |-> Len(pFiles),
                         totalFiles |-> Len(pAll'),
                         metaPromptCount |-> Len(pMeta)]
        ELSE /\ pPc' = "rejected"
             /\ pOut' = ThrewError("unknown encoding")

\* what became of a requested file: not there, read, or read failed
Skipped == [seen |-> FALSE]

ReadText(t) == [seen |-> TRUE, ok |-> TRUE, text |-> t]

ReadError == [seen |-> TRUE, ok |-> FALSE]

\* the first file from position k on that existsSync finds, or 0
NextExisting(k) ==
  IF \E j \in k..Len(pFiles) : ExistsSync(Join(RepoRoot, pFiles[j]))
  THEN CHOOSE j \in k..Len(pFiles) :
         /\ ExistsSync(Join(RepoRoot, pFiles[j]))
         /\ \A h \in k..(j - 1) : ~ExistsSync(Join(RepoRoot, pFiles[h]))
  ELSE 0

\* lines 383-409: the for..of loop from position k on with the text so far:
\* up to the next readFile it awaits, or to the end of the function
PromptLoopFrom(k, text, reads) ==
  LET j == NextExisting(k)
  IN IF j # 0
     THEN /\ fIdx' = j
          /\ pReads' = reads \o [h \in 1..(j - k) |-> Skipped]
          /\ pPrompt' = text
          /\ pPc' = "reading"
          /\ UNCHANGED pOut
     ELSE /\ fIdx' = Len(pFiles) + 1
          /\ pReads' = reads \o [h \in 1..(Len(pFiles) + 1 - k) |-> Skipped]
          /\ PromptFinish(text \o PromptTail(pMeta, pUser))

\* generateCompletePrompt is called and awaits listFiles()
PromptStart ==
  /\ pPc = "idle"
  /\ pPc' = "listing"
  /\ ListStart
  /\ UNCHANGED <<pFiles, pUser, pMeta, pEncoding, pAll, fIdx, pPrompt, pReads, pOut>>

\* listFiles has settled: its rejection rejects the call; otherwise the tree
\* is rendered, the text is started and the loop over the files begins
PromptListed ==
  /\ pPc = "listing"
  /\ lPc \in {"returned", "rejected"}
  /\ UNCHANGED <<pFiles, pUser, pMeta, pEncoding>>
  /\ IF lPc = "rejected"
     THEN /\ pPc' = "rejected"
          /\ pOut' = ThrewError("listFiles rejected")
          /\ UNCHANGED <<pAll, fIdx, pPrompt, pReads>>
     ELSE /\ pAll' = history[Len(history)].result
          /\ IF FormatFileTreeString(pAll').ok
             THEN PromptLoopFrom(1, PromptHead(FormatFileTreeString(pAll').text), <<>>)
             ELSE /\ pPc' = "rejected"
                  /\ pOut' = ThrewError("TypeError")
                  /\ UNCHANGED <<fIdx, pPrompt, pReads>>

\* await fs.readFile(fullPath, 'utf8') settles: the file's block is added,
\* or the error is logged; then the loop goes on
PromptFileRead ==
  /\ pPc = "reading"
  /\ UNCHANGED <<pFiles, pUser, pMeta, pEncoding, pAll>>
  /\ LET data == ReadOf(fs[Join(RepoRoot, pFiles[fIdx])])
     IN IF data.ok
        THEN PromptLoopFrom(fIdx + 1, pPrompt \o FileBlock(pFiles[fIdx], data.text),
                            Append(pReads, ReadText(data.text)))
        ELSE PromptLoopFrom(fIdx + 1, pPrompt, Append(pReads, ReadError))

\* ======================================================================
\* RepoContextAPI.setRepositoryPath and POST /api/repo/change
\* (server.ts 81-107, 649-665). A path is a list of segments, absolute or
\* relative to the working directory of the process.
\* ======================================================================
MaxEvents == 3

VARIABLES
  repoPath,  \* this.repoPath: an absolute path
  dirs,      \* the absolute paths that exist
  events     \* the change requests answered and the reads of this.repoPath

rootVars == <<repoPath, dirs, events>>

AbsPath(segs) == [abs |-> TRUE, segs |-> segs]

RelPath(segs) == [abs |-> FALSE, segs |-> segs]

\* process.cwd()
Cwd == <<"srv">>

\* the segments with '.' dropped and '..' taking back the segment before it
RECURSIVE Normalize(_)
Normalize(segs) ==
  IF segs = <<>> THEN <<>>
  ELSE LET front == Normalize(SubSeq(segs, 1, Len(segs) - 1))
           last == segs[Len(segs)]
       IN IF last = "." THEN front
          ELSE IF last = ".." THEN SubSeq(front, 1, Len(front) - 1)
          ELSE Append(front, last)

\* path.resolve(p): the absolute, normalized path
Resolve(p) == Normalize(IF p.abs THEN p.segs ELSE Cwd \o p.segs)

\* the absolute paths that may exist
DirUniverse == {<<"repo">>, <<"other">>, <<"srv">>, <<"srv", "sub">>}

\* the paths change requests carry:
\* /repo, /gone, sub, /repo/../other, ., ../repo
ChangeInputs ==
  {AbsPath(<<"repo">>), AbsPath(<<"gone">>), RelPath(<<"sub">>),
   AbsPath(<<"repo", "..", "other">>), RelPath(<<".">>), RelPath(<<"..", "repo">>)}

\* a root that is swapped in before it is validated
SetRepositoryPathSwapFirst(current, newPath) ==
  [ok |-> Resolve(newPath) \in dirs, root |-> Resolve(newPath)]

\* setRepositoryPath(newPath): throws and leaves this.repoPath alone when the
\* resolved path does not exist, otherwise stores and returns the resolved path
SetRepositoryPath(current, newPath) ==
  IF Resolve(newPath) \notin dirs
  THEN [ok |-> FALSE, root |-> current]
  ELSE [ok |-> TRUE, root |-> Resolve(newPath)]

\* POST /api/repo/change { path }: 200 { success, path } or 500 { error }
ChangeRepo(path) ==
  /\ Len(events) < MaxEvents
  /\ LET set == SetRepositoryPath(repoPath, path)
     IN /\ repoPath' = set.root
        /\ events' = Append(events,
             IF set.ok THEN [kind |-> "change", input |-> path, status |-> 200, path |-> set.root]
                       ELSE [kind |-> "change", input |-> path, status |-> 500])
  /\ UNCHANGED dirs

\* an operation reads this.repoPath (GET /api/repo/current; the cwd of glob;
\* join(this.repoPath, file))
ReadRepoPath ==
  /\ Len(events) < MaxEvents
  /\ events' = Append(events, [kind |-> "read", path |-> repoPath])
  /\ UNCHANGED <<repoPath, dirs>>

\* ======================================================================
\* generateCompletePrompt while POST /api/repo/change is served
\* (server.ts 109-195, 362-421): the reads of this.repoPath, in the
\* synchronous stretches between the awaits of the assembly
\* ======================================================================
MaxAsmFiles == 2

VARIABLES
  aPc,          \* "idle" | "ignore" | "glob" | "read" | "done" | "rejected"
  aFiles,       \* the files argument
  aIdx,         \* the file of the loop at line 383 whose read is awaited
  aIgnoreRoot,  \* the root of join(this.repoPath, '.gitignore')  (line 130)
  aCwd,         \* the root glob enumerates as its cwd            (line 146)
  aPrinted,     \* the root printed into <file_map>               (line 377)
  aPending,     \* the root of the fullPath whose read is awaited (line 384)
  aReads,       \* the roots of the file contents in the prompt, in order
  aSince        \* how many change requests had been answered at the call

asmVars == <<aPc, aFiles, aIdx, aIgnoreRoot, aCwd, aPrinted, aPending, aReads, aSince>>

\* no root read yet
NoRoot == <<"?">>

\* the roots that hold a .gitignore
IgnoreRoots == {<<"srv">>, <<"other">>}

\* lines 383-395 from the k-th file on, without an await up to the next
\* existing file: its fullPath is joined to the root of now and its read is
\* awaited; after the last file the prompt is finished and returned
AsmLoopFrom(k) ==
  \E j \in k..(Len(aFiles) + 1) :
    /\ aIdx' = j
    /\ IF j <= Len(aFiles)
         THEN aPc' = "read" /\ aPending' = repoPath
         ELSE aPc' = "done" /\ aPending' = NoRoot

\* generateCompletePrompt(files, ...) is called: listFiles and
\* loadIgnorePatterns run up to the awaited read of .gitignore, or, without a
\* .gitignore, on to the awaited glob
AsmStart ==
  /\ aPc = "idle"
  /\ aIgnoreRoot' = repoPath
  /\ aSince' = Len(events)
  /\ IF repoPath \in IgnoreRoots
       THEN aPc' = "ignore" /\ aCwd' = aCwd
       ELSE aPc' = "glob" /\ aCwd' = repoPath
  /\ UNCHANGED <<aFiles, aIdx, aPrinted, aPending, aReads, rootVars>>

\* the read of .gitignore settles: a rejection rejects the whole call,
\* otherwise globOptions is built and glob is awaited
AsmIgnoreRead(ok) ==
  /\ aPc = "ignore"
  /\ IF ok THEN aPc' = "glob" /\ aCwd' = repoPath
           ELSE aPc' = "rejected" /\ aCwd' = aCwd
  /\ UNCHANGED <<aFiles, aIdx, aIgnoreRoot, aPrinted, aPending, aReads, aSince, rootVars>>

\* glob settles (a rejection is caught): the tree is rendered, the root is
\* printed, and the loop over the files runs to its first awaited read
AsmListed ==
  /\ aPc = "glob"
  /\ aPrinted' = repoPath
  /\ AsmLoopFrom(1)
  /\ UNCHANGED <<aFiles, aIgnoreRoot, aCwd, aReads, aSince, rootVars>>

\* the awaited readFile settles: its content is appended (a rejection is
\* logged and skipped) and the loop goes on
AsmFileRead(ok) ==
  /\ aPc = "read"
  /\ aReads' = IF ok THEN Append(aReads, aPending) ELSE aReads
  /\ AsmLoopFrom(aIdx + 1)
  /\ UNCHANGED <<aFiles, aIgnoreRoot, aCwd, aPrinted, aSince, rootVars>>

\* POST /api/repo/change is served while the assembly is at an await
AsmChangeRepo(path) == ChangeRepo(path) /\ UNCHANGED asmVars

\* ======================================================================
\* Specifications
\* ======================================================================
fsVars == <<fs, fsOps>>

cacheVars == <<tokenCache, calls>>

\* the state of the operations modelled further down the module
restVars == <<treeVars, ctxVars, promptVars, rootVars, asmVars>>

vars == <<execVars, fsVars, cacheVars, handlerVars, listVars, restVars>>

ExecInit ==
  /\ items \in SeqsUpTo(ItemVals, MaxItems)
  /\ limit \in 1..MaxLimit
  /\ fn = "task"
  /\ failing \in SUBSET ItemVals
  /\ ePc = "idle"
  /\ i = 0
  /\ results = <<>>
  /\ wpc = [w \in Workers |-> "none"]
  /\ widx = [w \in Workers |-> 0]
  /\ invoked = <<>>
  /\ settled = <<>>
  /\ output = <<>>

\* no mapWithConcurrency call yet; f is the task of the call to come
ExecIdle(f) ==
  /\ items = <<>>
  /\ limit = 1
  /\ fn = f
  /\ failing = {}
  /\ ePc = "idle"
  /\ i = 0
  /\ results = <<>>
  /\ wpc = [w \in Workers |-> "none"]
  /\ widx = [w \in Workers |-> 0]
  /\ invoked = <<>>
  /\ settled = <<>>
  /\ output = <<>>

FsInit ==
  /\ fs \in [FsPaths -> FsStates]
  /\ fsOps = 0

\* an empty filesystem nobody changes
FsIdle ==
  /\ fs = [p \in FsPaths |-> NoFile]
  /\ fsOps = 0

\* const tokenCache = new Map()
CacheInit ==
  /\ tokenCache = {}
  /\ calls = [s \in Slots |-> IdleCall]

\* no request to POST /api/repo/file-tokens
HandlerIdle ==
  /\ hPc = "idle"
  /\ reqFiles = <<>>
  /\ reqEnc = ""
  /\ response = NoResponse

\* no listFiles call, an empty repository
ListIdle ==
  /\ tree = {}
  /\ gitignore = NoIgnoreFile
  /\ patterns = <<>>
  /\ lPc = "idle"
  /\ ig = <<>>
  /\ allFiles = <<>>
  /\ pIdx = 0
  /\ failedLog = {}
  /\ history = <<>>

\* no generateFileTree call
TreeIdle ==
  /\ tFiles = <<>>
  /\ tPc = "idle"
  /\ tOut = Threw
  /\ tTexts = <<>>

\* no generateContext call
CtxIdle ==
  /\ cPc = "idle"
  /\ cFiles = <<>>
  /\ cEncoding = NoOption
  /\ cMaxTokens = NoOption
  /\ cResolved = <<>>
  /\ cMissing = <<>>
  /\ cChild = ChildRunning
  /\ cOut = NoOutcome

\* no generateCompletePrompt call
PromptIdle ==
  /\ pPc = "idle"
  /\ pFiles = <<>>
  /\ pUser = <<>>
  /\ pMeta = <<>>
  /\ pEncoding = ""
  /\ pAll = <<>>
  /\ fIdx = 0
  /\ pPrompt = <<>>
  /\ pReads = <<>>
  /\ pOut = NoOutcome

\* no change request; the root is the working directory the process started in
RootIdle ==
  /\ repoPath = Cwd
  /\ dirs = {Cwd}
  /\ events = <<>>

\* no generateCompletePrompt call whose root reads are followed
AsmIdle ==
  /\ aPc = "idle"
  /\ aFiles = <<>>
  /\ aIdx = 0
  /\ aIgnoreRoot = NoRoot
  /\ aCwd = NoRoot
  /\ aPrinted = NoRoot
  /\ aPending = NoRoot
  /\ aReads = <<>>
  /\ aSince = 0

\* none of the operations of restVars is called
RestIdle == TreeIdle /\ CtxIdle /\ PromptIdle /\ RootIdle /\ AsmIdle

\* ------------------------------------------------ the executor on its own
ExecNext ==
  \/ ExecStart /\ UNCHANGED <<fsVars, handlerVars, listVars, restVars>>
  \/ \E w \in Workers : TaskSettle(w) /\ UNCHANGED <<fsVars, handlerVars, listVars, restVars>>
  \/ ExecReturn /\ UNCHANGED <<fsVars, handlerVars, listVars, restVars>>

ExecSpecInit == ExecInit /\ FsIdle /\ CacheInit /\ HandlerIdle /\ ListIdle /\ RestIdle

ExecSpec == ExecSpecInit /\ [][ExecNext]_vars

\* every awaited task settles and its worker is resumed; the continuation of
\* await Promise.all(workers) is run once it is ready
ExecFairness ==
  /\ \A w \in Workers :
       WF_vars(TaskSettle(w) /\ UNCHANGED <<fsVars, handlerVars, listVars, restVars>>)
  /\ WF_vars(ExecReturn /\ UNCHANGED <<fsVars, handlerVars, listVars, restVars>>)

ExecFairSpec == ExecSpecInit /\ [][ExecNext]_vars /\ ExecFairness

\* ------------------------- independent callers of getTokenCountForFile
CacheNext ==
  \/ \E s \in Slots, p \in FsPaths, e \in Encodings :
       CountCall(s, p, e) /\ UNCHANGED <<execVars, handlerVars, listVars, restVars>>
  \/ \E s \in Slots : StatIO(s) /\ UNCHANGED <<execVars, handlerVars, listVars, restVars>>
  \/ \E s \in Slots : StatResume(s) /\ UNCHANGED <<execVars, handlerVars, listVars, restVars>>
  \/ \E s \in Slots : ReadIO(s) /\ UNCHANGED <<execVars, handlerVars, listVars, restVars>>
  \/ \E s \in Slots : ReadResume(s) /\ UNCHANGED <<execVars, handlerVars, listVars, restVars>>
  \/ \E p \in FsPaths, m \in 1..MaxMtime, t \in Contents :
       EnvWrite(p, m, t) /\ UNCHANGED <<execVars, handlerVars, listVars, restVars>>
  \/ \E p \in FsPaths : EnvDelete(p) /\ UNCHANGED <<execVars, handlerVars, listVars, restVars>>

CacheSpecInit == ExecIdle("task") /\ FsInit /\ CacheInit /\ HandlerIdle /\ ListIdle /\ RestIdle

CacheSpec == CacheSpecInit /\ [][CacheNext]_vars

\* ------- independent callers, and an environment that never modifies a file
\* ------- without changing its size or its modification time
ModNext ==
  \/ \E s \in Slots, p \in FsPaths, e \in Encodings :
       CountCall(s, p, e) /\ UNCHANGED <<execVars, handlerVars, listVars, restVars>>
  \/ \E s \in Slots : StatIO(s) /\ UNCHANGED <<execVars, handlerVars, listVars, restVars>>
  \/ \E s \in Slots : StatResume(s) /\ UNCHANGED <<execVars, handlerVars, listVars, restVars>>
  \/ \E s \in Slots : ReadIO(s) /\ UNCHANGED <<execVars, handlerVars, listVars, restVars>>
  \/ \E s \in Slots : ReadResume(s) /\ UNCHANGED <<execVars, handlerVars, listVars, restVars>>
  \/ \E p \in FsPaths, m \in 1..MaxMtime, t \in Contents :
       EnvModify(p, m, t) /\ UNCHANGED <<execVars, handlerVars, listVars, restVars>>

ModSpec == CacheSpecInit /\ [][ModNext]_vars

\* ------- count; modify; count: one caller at a time, the environment
\* ------- changes the file only between the two calls
SeqNext ==
  \/ \E s \in Slots, p \in FsPaths, e \in Encodings :
       /\ \A r \in Slots : r < s => calls[r].pc = "done"
       /\ CountCall(s, p, e)
       /\ UNCHANGED <<execVars, handlerVars, listVars, restVars>>
  \/ \E s \in Slots : StatIO(s) /\ UNCHANGED <<execVars, handlerVars, listVars, restVars>>
  \/ \E s \in Slots : StatResume(s) /\ UNCHANGED <<execVars, handlerVars, listVars, restVars>>
  \/ \E s \in Slots : ReadIO(s) /\ UNCHANGED <<execVars, handlerVars, listVars, restVars>>
  \/ \E s \in Slots : ReadResume(s) /\ UNCHANGED <<execVars, handlerVars, listVars, restVars>>
  \/ \E p \in FsPaths, m \in 1..MaxMtime, t \in Contents :
       /\ \A s \in Slots : calls[s].pc \in {"idle", "done"}
       /\ calls[1].pc = "done"
       /\ fs[p].exists
       /\ EnvWrite(p, m, t)
       /\ UNCHANGED <<execVars, handlerVars, listVars, restVars>>

SeqSpec == CacheSpecInit /\ [][SeqNext]_vars

\* ------------------------------- POST /api/repo/file-tokens, one request
HandlerInit ==
  /\ hPc = "idle"
  /\ reqFiles \in SeqsUpTo(RelNames, MaxSlots)
  /\ reqEnc \in Encodings
  /\ response = NoResponse

BatchNext ==
  \/ HandlerStart /\ UNCHANGED <<fsVars, listVars, restVars>>
  \/ \E s \in Slots : StatIO(s) /\ UNCHANGED <<execVars, handlerVars, listVars, restVars>>
  \/ \E s \in Slots : StatResume(s) /\ UNCHANGED <<execVars, handlerVars, listVars, restVars>>
  \/ \E s \in Slots : ReadIO(s) /\ UNCHANGED <<execVars, handlerVars, listVars, restVars>>
  \/ \E s \in Slots : ReadResume(s) /\ UNCHANGED <<execVars, handlerVars, listVars, restVars>>
  \/ \E w \in Workers : TaskDone(w) /\ UNCHANGED <<fsVars, handlerVars, listVars, restVars>>
  \/ ExecReturn /\ UNCHANGED <<fsVars, handlerVars, listVars, restVars>>
  \/ Respond /\ UNCHANGED <<execVars, fsVars, cacheVars, listVars, restVars>>
  \/ \E p \in FsPaths, m \in 1..MaxMtime, t \in Contents :
       hPc = "mapping" /\ EnvWrite(p, m, t) /\ UNCHANGED <<execVars, handlerVars, listVars, restVars>>
  \/ \E p \in FsPaths :
       hPc = "mapping" /\ EnvDelete(p) /\ UNCHANGED <<execVars, handlerVars, listVars, restVars>>

BatchSpecInit == ExecIdle("fileTokens") /\ FsInit /\ CacheInit /\ HandlerInit /\ ListIdle /\ RestIdle

BatchSpec == BatchSpecInit /\ [][BatchNext]_vars


\* ------------------- listFiles, called repeatedly on an unchanged repository
ListInit ==
  /\ tree \in {t \in SUBSET FileUniverse : Cardinality(t) <= MaxFiles}
  /\ gitignore \in {NoIgnoreFile, UnreadableIgnoreFile}
                   \cup {IgnoreFile(ls) : ls \in SeqsUpTo(IgnoreLines, MaxIgnoreLines)}
  /\ patterns \in SeqsUpTo(CallerPatterns, MaxPatterns)
  /\ lPc = "idle"
  /\ ig = <<>>
  /\ allFiles = <<>>
  /\ pIdx = 0
  /\ failedLog = {}
  /\ history = <<>>

ListNext ==
  \/ ListStart /\ UNCHANGED <<execVars, fsVars, cacheVars, handlerVars, restVars>>
  \/ IgnoreLoaded /\ UNCHANGED <<execVars, fsVars, cacheVars, handlerVars, restVars>>
  \/ /\ lPc = "glob"
     /\ \E m \in Orderings(Candidates(tree, patterns[pIdx])) :
          GlobResolves(m) /\ UNCHANGED <<execVars, fsVars, cacheVars, handlerVars, restVars>>
  \/ GlobRejects /\ UNCHANGED <<execVars, fsVars, cacheVars, handlerVars, restVars>>

ListSpecInit == ExecIdle("task") /\ FsIdle /\ CacheInit /\ HandlerIdle /\ ListInit /\ RestIdle

ListSpec == ListSpecInit /\ [][ListNext]_vars


\* ------------------------------- generateFileTree on a sorted path list
TreeInit ==
  /\ tFiles \in {SortedList(S) : S \in {T \in SUBSET PathUniverse : Cardinality(T) <= MaxTreeFiles}}
  /\ tPc = "idle"
  /\ tOut = Threw
  /\ tTexts = <<>>

TreeNext ==
  \/ GenerateTree
     /\ UNCHANGED <<execVars, fsVars, cacheVars, handlerVars, listVars, ctxVars, promptVars, rootVars, asmVars>>
  \/ FormatTree
     /\ UNCHANGED <<execVars, fsVars, cacheVars, handlerVars, listVars, ctxVars, promptVars, rootVars, asmVars>>

TreeSpecInit ==
  ExecIdle("task") /\ FsIdle /\ CacheInit /\ HandlerIdle /\ ListIdle /\ TreeInit /\ CtxIdle
  /\ PromptIdle /\ RootIdle /\ AsmIdle

TreeSpec == TreeSpecInit /\ [][TreeNext]_vars

\* ----------------- generateContext, one request as POST /api/repo/context
\* ----------------- passes it on (maxTokens is a positive integer there)
CtxInit ==
  /\ cPc = "idle"
  /\ cFiles \in SeqsUpTo(RelNames, MaxRequested)
  /\ cEncoding \in {NoOption} \cup {Given(e) : e \in Encodings}
  /\ cMaxTokens \in {NoOption} \cup {Given(n) : n \in 1..MaxBudget}
  /\ cResolved = <<>>
  /\ cMissing = <<>>
  /\ cChild = ChildRunning
  /\ cOut = NoOutcome

CtxNext ==
  \/ CtxStart
     /\ UNCHANGED <<execVars, fsVars, cacheVars, handlerVars, listVars, treeVars, promptVars, rootVars, asmVars>>
  \/ \E outcome \in ChildOutcomes :
       CtxChildEnds(outcome)
       /\ UNCHANGED <<execVars, fsVars, cacheVars, handlerVars, listVars, treeVars, promptVars, rootVars, asmVars>>

CtxSpecInit ==
  ExecIdle("task") /\ FsInit /\ CacheInit /\ HandlerIdle /\ ListIdle /\ TreeIdle /\ CtxInit
  /\ PromptIdle /\ RootIdle /\ AsmIdle

CtxSpec == CtxSpecInit /\ [][CtxNext]_vars

\* --------- generateCompletePrompt, one request as POST /api/repo/complete-
\* --------- prompt passes it on; the environment may delete files meanwhile
PromptInit ==
  /\ pPc = "idle"
  /\ pFiles \in SeqsUpTo(RelNames, MaxRequested)
  /\ pUser \in UserInstructions
  /\ pMeta \in SeqsUpTo(MetaPrompts, MaxMeta)
  /\ pEncoding \in Encodings
  /\ pAll = <<>>
  /\ fIdx = 0
  /\ pPrompt = <<>>
  /\ pReads = <<>>
  /\ pOut = NoOutcome

\* the repository of such a request: up to two listed files, the requested
\* files absent or holding a short text
PromptRepoInit ==
  /\ tree \in SUBSET {<<97, 46, 116, 115>>, <<115, 47, 98, 46, 116, 115>>}
  /\ gitignore \in {NoIgnoreFile, UnreadableIgnoreFile}
  /\ patterns = <<"**/*">>
  /\ lPc = "idle"
  /\ ig = <<>>
  /\ allFiles = <<>>
  /\ pIdx = 0
  /\ failedLog = {}
  /\ history = <<>>
  /\ fs \in [FsPaths -> {NoFile} \cup {File(1, t) : t \in PromptContents}]
  /\ fsOps = 0

PromptNext ==
  \/ PromptStart /\ UNCHANGED <<execVars, fsVars, cacheVars, handlerVars, treeVars, ctxVars, rootVars, asmVars>>
  \/ /\ pPc = "listing"
     /\ IgnoreLoaded
     /\ UNCHANGED <<execVars, fsVars, cacheVars, handlerVars, treeVars, ctxVars, promptVars, rootVars, asmVars>>
  \/ /\ pPc = "listing" /\ lPc = "glob"
     /\ \E m \in Orderings(Candidates(tree, patterns[pIdx])) : GlobResolves(m)
     /\ UNCHANGED <<execVars, fsVars, cacheVars, handlerVars, treeVars, ctxVars, promptVars, rootVars, asmVars>>
  \/ /\ pPc = "listing"
     /\ GlobRejects
     /\ UNCHANGED <<execVars, fsVars, cacheVars, handlerVars, treeVars, ctxVars, promptVars, rootVars, asmVars>>
  \/ PromptListed /\ UNCHANGED <<execVars, fsVars, cacheVars, handlerVars, listVars, treeVars, ctxVars, rootVars, asmVars>>
  \/ PromptFileRead /\ UNCHANGED <<execVars, fsVars, cacheVars, handlerVars, listVars, treeVars, ctxVars, rootVars, asmVars>>
  \/ \E p \in FsPaths :
       /\ pPc = "reading"
       /\ EnvDelete(p)
       /\ UNCHANGED <<execVars, handlerVars, listVars, treeVars, ctxVars, promptVars, rootVars, asmVars>>

PromptSpecInit ==
  ExecIdle("task") /\ CacheInit /\ HandlerIdle /\ TreeIdle /\ CtxIdle /\ RootIdle /\ AsmIdle
  /\ PromptRepoInit /\ PromptInit

PromptSpec == PromptSpecInit /\ [][PromptNext]_vars

\* ------------- change requests and reads of the root, in any order; the
\* ------------- process starts in its working directory (REPO_PATH unset)
RootInit ==
  /\ repoPath = Resolve(AbsPath(Cwd))
  /\ dirs \in SUBSET DirUniverse
  /\ events = <<>>

RootNext ==
  \/ \E path \in ChangeInputs :
       ChangeRepo(path)
       /\ UNCHANGED <<execVars, fsVars, cacheVars, handlerVars, listVars, treeVars, ctxVars, promptVars, asmVars>>
  \/ ReadRepoPath
     /\ UNCHANGED <<execVars, fsVars, cacheVars, handlerVars, listVars, treeVars, ctxVars, promptVars, asmVars>>

RootSpecInit ==
  ExecIdle("task") /\ FsIdle /\ CacheInit /\ HandlerIdle /\ ListIdle /\ TreeIdle /\ CtxIdle
  /\ PromptIdle /\ RootInit /\ AsmIdle

RootSpec == RootSpecInit /\ [][RootNext]_vars

\* ------------- one generateCompletePrompt call, and change requests served
\* ------------- at any of its awaits
AsmInit ==
  /\ aPc = "idle"
  /\ aFiles \in SeqsUpTo(RelNames, MaxAsmFiles)
  /\ aIdx = 0
  /\ aIgnoreRoot = NoRoot
  /\ aCwd = NoRoot
  /\ aPrinted = NoRoot
  /\ aPending = NoRoot
  /\ aReads = <<>>
  /\ aSince = 0

AsmNext ==
  \/ AsmStart
     /\ UNCHANGED <<execVars, fsVars, cacheVars, handlerVars, listVars, treeVars, ctxVars, promptVars>>
  \/ \E ok \in BOOLEAN :
       AsmIgnoreRead(ok)
       /\ UNCHANGED <<execVars, fsVars, cacheVars, handlerVars, listVars, treeVars, ctxVars, promptVars>>
  \/ AsmListed
     /\ UNCHANGED <<execVars, fsVars, cacheVars, handlerVars, listVars, treeVars, ctxVars, promptVars>>
  \/ \E ok \in BOOLEAN :
       AsmFileRead(ok)
       /\ UNCHANGED <<execVars, fsVars, cacheVars, handlerVars, listVars, treeVars, ctxVars, promptVars>>
  \/ \E path \in ChangeInputs :
       AsmChangeRepo(path)
       /\ UNCHANGED <<execVars, fsVars, cacheVars, handlerVars, listVars, treeVars, ctxVars, promptVars>>

AsmSpecInit ==
  ExecIdle("task") /\ FsIdle /\ CacheInit /\ HandlerIdle /\ ListIdle /\ TreeIdle /\ CtxIdle
  /\ PromptIdle /\ RootInit /\ AsmInit

AsmSpec == AsmSpecInit /\ [][AsmNext]_vars


\* ======================================================================
\* Claims
\* ======================================================================

\* what the executor must hold at index k (1-based) once it has returned
ExpectedAt(k) == IF items[k] \in failing THEN Undefined ELSE Val(TaskResult(items[k]))

\* C1: whatever the limit and the completion order, the returned list has the
\* length of the input and position k holds the task's result for items[k]
\* (so the output does not depend on the limit for a deterministic task).
C1_OrderPreserved ==
  ePc = "returned" =>
    /\ Len(output) = Len(items)
    /\ \A k \in 1..Len(items) :
         items[k] \notin failing => output[k] = Val(TaskResult(items[k]))

\* C1 witness: three workers over three items returned after the tasks
\* completed in an order other than the input order.
C1_Witness ==
  /\ ePc = "returned"
  /\ Len(items) = 3
  /\ limit = 3
  /\ settled = <<2, 0, 1>>
  /\ items[1] # items[2]
  /\ failing = {}

\* the worker whose task settles in this step
SettlesNow(w) ==
  /\ wpc[w] = "await"
  /\ Len(settled') = Len(settled) + 1
  /\ settled'[Len(settled')] = widx[w]

C2_FailureStep ==
  \A w \in Workers :
    (SettlesNow(w) /\ items[widx[w] + 1] \in failing) =>
      /\ results' = [results EXCEPT ![widx[w] + 1] = Undefined]
      /\ IF i < Len(items)
           THEN wpc'[w] = "await" /\ widx'[w] = i /\ i' = i + 1
           ELSE wpc'[w] = "done"
      /\ \A v \in Workers \ {w} : wpc'[v] = wpc[v] /\ widx'[v] = widx[v]
      /\ ePc' = ePc

C2_FailureState ==
  /\ ePc # "rejected"
  /\ \A w \in Workers : wpc[w] # "rejected"
  /\ ePc = "returned" =>
       \A k \in 1..Len(items) : output[k] = ExpectedAt(k)

\* C2: a failing task puts undefined at its own index only; the worker that hit
\* the failure claims the next item, no other worker is disturbed, every other
\* index gets its own result and the call never rejects.
C2_FailureIsolated == [](C2_FailureState) /\ [][C2_FailureStep]_vars

\* C2 witness: the call returned; one worker saw its task fail at index 0 and
\* then ran the task of a later index, which succeeded.
C2_Witness ==
  /\ ePc = "returned"
  /\ Len(items) = 3
  /\ output[1] = Undefined
  /\ output[2] # Undefined
  /\ output[3] # Undefined
  /\ \E w \in Workers, k \in 1..2 : <<0, w>> \in ToSet(invoked) /\ <<k, w>> \in ToSet(invoked)

\* C3: once the call has returned no index is unclaimed, no task is in flight
\* and every slot of the result holds a task result or undefined.
C3_ReturnsOnlyWhenComplete ==
  ePc = "returned" =>
    /\ i >= Len(items)
    /\ \A w \in Workers : wpc[w] # "await"
    /\ Len(settled) = Len(items)
    /\ Len(output) = Len(items)
    /\ \A k \in 1..Len(items) : output[k] # Hole

\* C3 witness: a call over three items with two workers has returned.
C3_Witness ==
  /\ ePc = "returned"
  /\ Len(items) = 3
  /\ limit = 2
  /\ Len(settled) = 3

\* the entry of the cache that answers call c: same path, and modification
\* time, size and encoding equal to the call's stat and requested encoding
MatchingEntries(c) ==
  {e \in tokenCache : /\ e.key = c.path
                     /\ e.mtimeMs = c.stat.mtimeMs
                     /\ e.size = c.stat.size
                     /\ e.encoding = c.enc}

\* the continuation after stat of slot s runs in this step
ResumesAfterStat(s) == calls[s].pc = "statted" /\ calls'[s] # calls[s]

\* the continuation after readFile of slot s runs in this step
ResumesAfterRead(s) == calls[s].pc = "readDone" /\ calls'[s] # calls[s]

\* C4: when the path has an entry whose modification time, size and encoding
\* equal the stat and the requested encoding, the call returns the stored count
\* without reading the file, calling the tokenizer or writing the cache.
C4_HitHasNoEffects ==
  [][\A s \in Slots :
       (ResumesAfterStat(s) /\ calls[s].stat.exists /\ MatchingEntries(calls[s]) # {}) =>
         /\ calls'[s].pc = "done"
         /\ \E e \in MatchingEntries(calls[s]) : calls'[s].ret = e.tokens
         /\ calls'[s].log = <<"stat">>
         /\ tokenCache' = tokenCache
         /\ fs' = fs]_vars

\* C4 witness: a call on an existing file has returned a positive count having
\* used the stat only, while the file was read once overall.
C4_Witness ==
  \E s, r \in Slots :
    /\ calls[s].pc = "done"
    /\ calls[s].stat.exists
    /\ calls[s].log = <<"stat">>
    /\ calls[s].ret > 0
    /\ calls[r].log = <<"stat", "read", "tokenize", "set">>

\* the record a successful recomputation by call c stores, given the count n
StoredRecord(c, n) ==
  [key |-> c.path, mtimeMs |-> c.stat.mtimeMs, size |-> c.stat.size, tokens |-> n,
   encoding |-> c.enc]

\* C5 as stated (for requests under a known encoding): every miss reads,
\* tokenizes, stores the whole record and returns the new count.
C5_MissAlwaysStores ==
  [][\A s \in Slots :
       /\ (ResumesAfterStat(s) /\ calls[s].stat.exists /\ MatchingEntries(calls[s]) = {}) =>
            calls'[s].pc = "read"
       /\ (ResumesAfterRead(s) /\ calls[s].enc \in KnownEncodings) =>
            /\ "tokenize" \in ToSet(calls'[s].log)
            /\ MapGet(tokenCache', calls[s].path) = {StoredRecord(calls[s], calls'[s].ret)}]_vars

C5_MissStep ==
  \A s \in Slots :
    /\ (ResumesAfterStat(s) /\ calls[s].stat.exists /\ MatchingEntries(calls[s]) = {}) =>
         /\ calls'[s].pc = "read"
         /\ tokenCache' = tokenCache
    /\ ResumesAfterRead(s) =>
         /\ calls'[s].pc = "done"
         /\ IF calls[s].data.ok /\ calls[s].enc \in KnownEncodings
              THEN /\ calls'[s].ret = EncodeLength(calls[s].data.text, calls[s].enc)
                   /\ "tokenize" \in ToSet(calls'[s].log)
                   /\ tokenCache' = {e \in tokenCache : e.key # calls[s].path}
                                      \cup {StoredRecord(calls[s], calls'[s].ret)}
              ELSE /\ calls'[s].ret = 0
                   /\ tokenCache' = tokenCache

C5_OneEntryPerPath == \A e1, e2 \in tokenCache : e1.key = e2.key => e1 = e2

\* C5 (amended): a miss reads the file; when the read and the tokenizer call
\* succeed the path's entry is replaced as a whole by (stat modification time,
\* stat size, requested encoding, new count) and the new count is returned;
\* when the read or the tokenizer fails the call returns 0 and the cache is left
\* as it was; the cache never holds two entries for one path.
C5_MissReplacesEntry == [](C5_OneEntryPerPath) /\ [][C5_MissStep]_vars

\* C5 witness: two calls on one path under different encodings have both
\* recomputed and stored, and the path has the later one's record only.
C5_Witness ==
  \E s, r \in Slots :
    /\ calls[s].pc = "done" /\ calls[r].pc = "done"
    /\ calls[s].path = calls[r].path
    /\ calls[s].enc # calls[r].enc
    /\ "set" \in ToSet(calls[s].log)
    /\ "set" \in ToSet(calls[r].log)
    /\ MapGet(tokenCache, calls[s].path) = {StoredRecord(calls[s], calls[s].ret)}

\* call c returned a count: from the cache, or by storing its own record
Counted(c) ==
  /\ c.pc = "done"
  /\ \/ (c.log = <<"stat">> /\ c.stat.exists)
     \/ "set" \in ToSet(c.log)

\* call c read the file and called the tokenizer
Recomputed(c) == "read" \in ToSet(c.log) /\ "tokenize" \in ToSet(c.log)

\* C6: of two consecutive counts of one path, the second recomputes when the
\* file's size or modification time changed in between, and when it asks for
\* another encoding than the first.
C6_InvalidationForcesRecompute ==
  \A s \in Slots \ {1} :
    (/\ Counted(calls[s - 1])
     /\ calls[s].pc = "done"
     /\ calls[s].path = calls[s - 1].path
     /\ calls[s].stat.exists
     /\ \/ calls[s].stat # calls[s - 1].stat
        \/ calls[s].enc # calls[s - 1].enc)
    => Recomputed(calls[s])

\* C6 witness: a file was counted, modified so that its stat changed, and
\* counted again under the same encoding, and the second count stored a record.
C6_Witness ==
  /\ Counted(calls[1])
  /\ calls[2].pc = "done"
  /\ calls[2].path = calls[1].path
  /\ calls[2].enc = calls[1].enc
  /\ calls[2].stat.exists
  /\ calls[2].stat # calls[1].stat
  /\ "set" \in ToSet(calls[2].log)
  /\ calls[2].ret # calls[1].ret

\* the stat of the invocation in worker w's slot failed
StatFailedIn(w) ==
  /\ wpc[w] # "none"
  /\ calls[w].pc \in {"done", "rejected"}
  /\ calls[w].log = <<"stat">>
  /\ ~calls[w].stat.exists

\* C7: an invocation whose stat fails returns 0, the file's slot in the batch
\* holds { rel, tokens: 0 }, and the request is answered 200 with a count for
\* every requested file.
C7_StatFailureGivesZero ==
  /\ \A w \in Slots :
       StatFailedIn(w) =>
         /\ calls[w].pc = "done"
         /\ calls[w].ret = 0
         /\ results[widx[w] + 1] \in
              {Hole, Val([rel |-> reqFiles[widx[w] + 1], tokens |-> 0])}
  /\ hPc = "responded" =>
       /\ response.status = 200
       /\ DOMAIN response.tokenCounts = ToSet(reqFiles)
       /\ \A w \in Slots : StatFailedIn(w) =>
            \/ response.tokenCounts[reqFiles[widx[w] + 1]] = 0
            \/ \E k \in (widx[w] + 2)..Len(reqFiles) : reqFiles[k] = reqFiles[widx[w] + 1]

\* C7 witness: a request for two files was answered; one file was deleted
\* between existsSync and stat and counts 0, the other has a positive count.
C7_Witness ==
  /\ hPc = "responded"
  /\ Len(reqFiles) = 2
  /\ reqFiles[1] # reqFiles[2]
  /\ \E w \in Slots : StatFailedIn(w) /\ response.tokenCounts[reqFiles[widx[w] + 1]] = 0
  /\ \E r \in ToSet(reqFiles) : response.tokenCounts[r] > 0

\* ---------------------------------------------------------------- listFiles

\* the rules a call that loaded the repository's ignore file works with
IgnoreRules ==
  DefaultRules \o (IF gitignore.exists /\ gitignore.readable THEN gitignore.lines ELSE <<>>)

\* the files matched by a pattern whose enumeration did not fail
Matched(failed) ==
  UNION {Candidates(tree, patterns[k]) : k \in DOMAIN patterns \ failed}

StrictlyIncreasing(r) == \A k \in 1..(Len(r) - 1) : LexLess(r[k], r[k + 1])

\* C8: whatever the patterns (overlapping or not) and whatever the order in
\* which glob hands back its matches, every list listFiles returns holds
\* exactly the matched files the ignore rules let through, each one once, in
\* strictly increasing order of code units; two calls on the same repository
\* with the same patterns (and the same patterns enumerated successfully)
\* return the same list.
C8_SortedUniqueDeterministic ==
  /\ \A n \in DOMAIN history :
       /\ StrictlyIncreasing(history[n].result)
       /\ \A a, b \in DOMAIN history[n].result :
            a # b => history[n].result[a] # history[n].result[b]
       /\ ToSet(history[n].result) =
            {f \in Matched(history[n].failed) : ~Ignores(IgnoreRules, f)}
  /\ \A n, m \in DOMAIN history :
       history[n].failed = history[m].failed => history[n].result = history[m].result

\* two calls have returned the same list of at least two files; in the second
\* one the patterns overlapped, glob handed matches back out of order and the
\* ignore rules dropped a match
C8_Witness ==
  /\ Len(history) = 2
  /\ history[1].failed = {} /\ history[2].failed = {}
  /\ history[1].result = history[2].result
  /\ Len(history[2].result) >= 2
  /\ Len(Dedupe(allFiles)) < Len(allFiles)
  /\ \E k \in 1..(Len(allFiles) - 1) : LexLess(allFiles[k + 1], allFiles[k])
  /\ \E f \in ToSet(allFiles) : f \notin ToSet(history[2].result)

\* C9: when glob fails for a pattern, at any position, the call goes on with
\* the patterns behind it and returns every non-ignored match of the patterns
\* that did not fail; when all patterns fail it returns the empty list; a glob
\* failure never makes listFiles reject.
C9_FailedPatternSkipped ==
  /\ \A n \in DOMAIN history :
       /\ \A k \in DOMAIN patterns \ history[n].failed :
            \A f \in Candidates(tree, patterns[k]) :
              ~Ignores(IgnoreRules, f) => f \in ToSet(history[n].result)
       /\ history[n].failed = DOMAIN patterns => history[n].result = <<>>
  /\ failedLog # {} =>
       /\ lPc \in {"glob", "returned"}
       /\ lPc = "glob" => \A k \in failedLog : k < pIdx
       /\ lPc = "returned" =>
            history[Len(history)].failed = failedLog /\ pIdx = Len(patterns)

\* one call lost its first pattern, the next one its second pattern, and both
\* returned files; the second pattern alone has a match the call had to keep
C9_Witness ==
  /\ Len(history) = 2
  /\ history[1].failed = {1} /\ history[2].failed = {2}
  /\ history[1].result # <<>> /\ history[2].result # <<>>
  /\ history[1].result # history[2].result

\* every pattern of a call failed and the call returned the empty list
C9_AllFailedWitness ==
  /\ lPc = "returned"
  /\ Len(patterns) = 2
  /\ failedLog = {1, 2}
  /\ tree # {}
  /\ history[Len(history)].result = <<>>

\* C10 (as the specification states it): no path the built-in default rules
\* exclude is ever in a list listFiles returns, whatever the repository's
\* ignore file holds.
C10_DefaultsAlwaysExcluded ==
  \A n \in DOMAIN history :
    \A f \in ToSet(history[n].result) : ~Ignores(DefaultRules, f)

\* what the code does guarantee: a returned path is let through by the
\* defaults followed by the ignore file's lines, and lies under none of the
\* directories excluded at the traversal level
C10_LayeredRulesExcluded ==
  \A n \in DOMAIN history :
    \A f \in ToSet(history[n].result) : ~Ignores(IgnoreRules, f) /\ ~GlobIgnored(f)

\* a returned list holds a file the defaults exclude: the ignore file negated
\* the default rule
C10_Witness ==
  /\ lPc = "returned"
  /\ \E f \in ToSet(history[Len(history)].result) : Ignores(DefaultRules, f)

\* the caller patterns that start with '!', and the files their body names
CallerNegates(pattern, file) ==
  pattern = "!*.ts" /\ EndsWith(Basename(file), <<46, 116, 115>>)

\* C11 (as the specification states it): the rules are the defaults, then the
\* ignore file's lines, then the caller's patterns, later ones overriding
\* earlier ones; so a file that only the ignore file excludes and that a
\* caller's negation pattern names is in the list listFiles returns.
C11_CallerNegationReincludes ==
  \A n \in DOMAIN history :
    \A k \in DOMAIN patterns \ history[n].failed :
      \A f \in tree :
        (/\ CallerNegates(patterns[k], f)
         /\ Ignores(IgnoreRules, f)
         /\ ~Ignores(DefaultRules, f)
         /\ ~GlobIgnored(f))
        => f \in ToSet(history[n].result)

\* the part of the layering the code has: the matcher of a call holds the
\* defaults followed by the ignore file's lines, nothing from the caller, and
\* decides alone what is dropped from the glob matches
C11_TwoLayersOnly ==
  /\ lPc \in {"glob", "returned"} => ig = IgnoreRules
  /\ \A n \in DOMAIN history :
       \A f \in ToSet(history[n].result) : ~TestOne(IgnoreRules, Basename(f), FALSE)

\* a call given '**/*' and '!*.ts', both enumerated, has returned without
\* a.ts, which the ignore file's '*.ts' excludes
C11_Witness ==
  /\ lPc = "returned"
  /\ patterns = <<"**/*", "!*.ts">>
  /\ failedLog = {}
  /\ <<97, 46, 116, 115>> \in tree
  /\ gitignore = IgnoreFile(<< <<42, 46, 116, 115>> >>)
  /\ <<97, 46, 116, 115>> \notin ToSet(history[Len(history)].result)

\* ---------------------------------------------------------- generateFileTree

\* C12 (as the specification states it): for every sorted, duplicate-free
\* path list, whatever its segment names, generateFileTree returns a tree, and
\* the paths read back from the tree are exactly the paths of the list, each
\* one once.
C12_TreeRoundTrip ==
  tPc = "done" =>
    /\ tOut.ok
    /\ Flatten(tOut.node, <<>>) = ToSet(tFiles)
    /\ FlattenCount(tOut.node) = Len(tFiles)

\* a path with a directory named like the tree's own file-list property
HasFilesDir(file) == \E k \in DOMAIN ParentDirs(file) : ParentDirs(file)[k] = FilesKey

\* what the code does guarantee: the round trip of every list none of whose
\* directories is named _files (a file named _files is no trouble)
C12_RoundTripWithoutFilesDir ==
  (tPc = "done" /\ \A k \in DOMAIN tFiles : ~HasFilesDir(tFiles[k])) =>
    /\ tOut.ok
    /\ Flatten(tOut.node, <<>>) = ToSet(tFiles)
    /\ FlattenCount(tOut.node) = Len(tFiles)

\* generateFileTree threw on a list with a directory named _files
C12_Witness ==
  /\ tPc = "done"
  /\ ~tOut.ok
  /\ \E k \in DOMAIN tFiles : HasFilesDir(tFiles[k])

\* generateFileTree returned a tree that has lost a path
C12_LostPathWitness ==
  /\ tPc = "done"
  /\ tOut.ok
  /\ Flatten(tOut.node, <<>>) # ToSet(tFiles)

\* the round trip of a list of three paths, nested ones and a file named
\* _files among them
C12_RoundTripWitness ==
  /\ tPc = "done"
  /\ tOut.ok
  /\ Len(tFiles) = MaxTreeFiles
  /\ FilesKey \in ToSet(tFiles)
  /\ \E k \in DOMAIN tFiles : Len(Split(tFiles[k])) > 1
  /\ Flatten(tOut.node, <<>>) = ToSet(tFiles)

\* ----------------------------------------------------------- generateContext

\* sub is full with some elements left out, the others in the same order
KeepsOrder(sub, full) ==
  \E at \in [DOMAIN sub -> DOMAIN full] :
    /\ \A j, k \in DOMAIN sub : j < k => at[j] < at[k]
    /\ \A k \in DOMAIN sub : full[at[k]] = sub[k]

\* the child ended in a way that makes generateContext reject: it could not
\* be spawned, it exited non-zero, or the tokenizer refused the encoding
CollaboratorFailed ==
  /\ cChild.ended
  /\ \/ cChild.event = "error"
     \/ cChild.code # 0
     \/ ~CountTokensOpt(cChild.stdout, cEncoding).ok

\* C13: generateContext splits the requested list into the files that exist
\* under the root and those that do not: the two lists share no entry, hold
\* every requested entry between them and keep the caller's order; a request
\* with both kinds is never rejected for its missing files (only when the
\* child process or the tokenizer fails) and returns the two lists.
C13_SplitsRequestedFiles ==
  cPc # "idle" =>
    /\ ToSet(cResolved) \cap ToSet(cMissing) = {}
    /\ ToSet(cResolved) \cup ToSet(cMissing) = ToSet(cFiles)
    /\ Len(cResolved) + Len(cMissing) = Len(cFiles)
    /\ KeepsOrder(cResolved, cFiles)
    /\ KeepsOrder(cMissing, cFiles)
    /\ \A f \in ToSet(cResolved) : fs[Join(RepoRoot, f)].exists
    /\ \A f \in ToSet(cMissing) : ~fs[Join(RepoRoot, f)].exists
    /\ (cResolved # <<>> /\ cMissing # <<>>) =>
         /\ cPc = "rejected" => CollaboratorFailed
         /\ (cChild.ended /\ ~CollaboratorFailed) => cPc = "returned"
         /\ cPc = "returned" =>
              /\ cOut.files = cResolved
              /\ cOut.missingFiles = cMissing
              /\ cOut.fileCount = Len(cResolved)

\* a request for a missing file followed by an existing one has returned
C13_Witness ==
  /\ cPc = "returned"
  /\ Len(cFiles) = 2
  /\ cOut.missingFiles = <<cFiles[1]>>
  /\ cOut.files = <<cFiles[2]>>

\* C14 (as the specification states it): a requested file that does not exist
\* is never fatal: generateContext fails as a whole only when a collaborator
\* fails, also when every requested file is missing.
C14_MissingNeverFatal ==
  (cFiles # <<>> /\ cPc = "rejected") => CollaboratorFailed

\* generateContext has thrown 'No valid files to process' for a request all
\* of whose files are missing, before any collaborator was called
C14_Witness ==
  /\ cPc = "rejected"
  /\ cFiles # <<>>
  /\ cResolved = <<>>
  /\ cMissing = cFiles
  /\ ~cChild.ended
  /\ cOut = ThrewError("No valid files to process")

\* what the code does guarantee: with at least one existing file the missing
\* ones are listed in missingFiles and only a collaborator failure is fatal
C14_FatalOnlyWhenAllMissing ==
  (cPc = "rejected" /\ ~CollaboratorFailed) => (cResolved = <<>> /\ ~cChild.ended)

\* ---------------------------------------------------- generateCompletePrompt

\* the file-contents blocks expected for the requested files from the k-th
\* one on: one per file that was read, none for the others
RECURSIVE ExpectedFileBlocks(_)
ExpectedFileBlocks(k) ==
  IF k > Len(pFiles) THEN <<>>
  ELSE (IF pReads[k].seen /\ pReads[k].ok
        THEN FileLabel \o TextOf(pFiles[k]) \o Newline
             \o FenceOpen \o pReads[k].text \o FenceClose
        ELSE <<>>)
       \o ExpectedFileBlocks(k + 1)

\* the meta-prompt sections expected from the k-th meta prompt on
RECURSIVE ExpectedMetaSections(_)
ExpectedMetaSections(k) ==
  IF k > Len(pMeta) THEN <<>>
  ELSE MetaOpen \o DecimalText(k) \o MetaNameOpen \o pMeta[k].name \o MetaNameClose
       \o pMeta[k].content \o MetaClose \o DecimalText(k) \o MetaEnd
       \o ExpectedMetaSections(k + 1)

\* C15: the text generateCompletePrompt returns is, in this order and with
\* nothing else, the file map (root path, then the rendered tree of the
\* listed files), the file contents, the meta prompts and the user
\* instructions; the file contents hold one block per requested file that
\* was read, in request order, labelled with its relative path and holding
\* its content unchanged; a requested file that is there is read; the meta
\* prompts come in request order, labelled by name and numbered from 1.
C15_BundleLayout ==
  pPc = "returned" =>
    /\ pOut.prompt =
         FileMapOpen \o TextOf(RepoRoot) \o Newline
         \o FormatFileTreeString(pAll).text \o FileMapClose
         \o FileContentsOpen \o ExpectedFileBlocks(1) \o FileContentsClose
         \o ExpectedMetaSections(1)
         \o UserOpen \o pUser \o UserClose
    /\ Len(pReads) = Len(pFiles)
    /\ \A k \in DOMAIN pFiles :
         fs[Join(RepoRoot, pFiles[k])].exists =>
           pReads[k] = ReadText(fs[Join(RepoRoot, pFiles[k])].content)
    /\ pOut.metaPromptCount = Len(pMeta)
    /\ pOut.totalFiles = Len(pAll)

\* a prompt has been returned for b.txt then a.txt, both read, one of them
\* holding a fence, with two meta prompts and a non-empty file map
C15_Witness ==
  /\ pPc = "returned"
  /\ pFiles = <<"b.txt", "a.txt">>
  /\ pReads[1].seen /\ pReads[1].ok /\ pReads[1].text = <<96, 96, 96>>
  /\ pReads[2].seen /\ pReads[2].ok
  /\ Len(pMeta) = 2 /\ pMeta[1] # pMeta[2]
  /\ Len(pAll) = 2
  /\ pUser # <<>>

\* C16 (as the specification states it): the result of an assembly carries
\* an over-budget boolean, true exactly when the token count of the assembled
\* text is greater than the budget (the caller's maxTokens, or 128000).
C16_OverBudgetVerdict ==
  pPc = "returned" =>
    /\ "isOverLimit" \in DOMAIN pOut
    /\ pOut.isOverLimit = (pOut.tokenCount > DefaultMaxTokens)

\* a complete prompt has been returned with its token count and no verdict
C16_Witness ==
  /\ pPc = "returned"
  /\ pOut.tokenCount > 0
  /\ "isOverLimit" \notin DOMAIN pOut
  /\ "maxTokens" \notin DOMAIN pOut

\* the budget of a generateContext call
Budget == IF cMaxTokens.given THEN cMaxTokens.v ELSE DefaultMaxTokens

\* what the code does guarantee: generateContext returns the verdict, for
\* the token count of the child's output under the requested encoding
C16_ContextOverLimit ==
  cPc = "returned" =>
    /\ cOut.tokenCount = CountTokensOpt(cChild.stdout, cEncoding).n
    /\ cOut.maxTokens = Budget
    /\ cOut.isOverLimit = (cOut.tokenCount > Budget)

\* generateContext has returned a count equal to the budget, not over it
C16_ContextAtBudgetWitness ==
  cPc = "returned" /\ cMaxTokens.given /\ cOut.tokenCount = Budget /\ ~cOut.isOverLimit

\* generateContext has returned a count one above the budget, over it
C16_ContextOverBudgetWitness ==
  cPc = "returned" /\ cMaxTokens.given /\ cOut.tokenCount = Budget + 1 /\ cOut.isOverLimit

\* ---------------------------------------------------------- setRepositoryPath

\* the root in force after the first n events: the resolved path of the last
\* change request among them that was accepted, else the starting root
RECURSIVE RootAfter(_)
RootAfter(n) ==
  IF n = 0 THEN Cwd
  ELSE IF events[n].kind = "change" /\ events[n].status = 200
       THEN Resolve(events[n].input)
       ELSE RootAfter(n - 1)

\* C17: a change request is accepted exactly when the resolved target exists;
\* a refused one leaves the root as it was; an accepted one answers with the
\* resolved path, which is the root every later read sees until the next
\* accepted change.
C17_ValidatedRootChange ==
  /\ \A n \in DOMAIN events :
       /\ events[n].kind = "change" =>
            /\ events[n].status = 200 <=> Resolve(events[n].input) \in dirs
            /\ events[n].status = 200 => events[n].path = Resolve(events[n].input)
       /\ events[n].kind = "read" => events[n].path = RootAfter(n - 1)
  /\ repoPath = RootAfter(Len(events))
  /\ (\E n \in DOMAIN events : events[n].kind = "change" /\ events[n].status = 200)
       => repoPath \in dirs

\* an accepted change to a relative path, then a refused change, then a read
\* that still sees the resolved path of the accepted one
C17_Witness ==
  /\ Len(events) = 3
  /\ events[1].kind = "change" /\ events[1].status = 200 /\ ~events[1].input.abs
  /\ events[1].path # Cwd
  /\ events[2].kind = "change" /\ events[2].status = 500
  /\ events[3].kind = "read" /\ events[3].path = events[1].path

\* ------------------------------------------- concurrent calls on one path

\* the record call s writes: its own stat, its own encoding, its own count
OwnRecord(s) == StoredRecord(calls[s], calls[s].ret)

\* call s has written its record
Wrote(s) == calls[s].pc = "done" /\ "set" \in ToSet(calls[s].log)

\* every entry is, in all four fields, the record of one call that wrote it;
\* a path has at most one entry; no call has ended without a count
C18_EntryOfOneCall ==
  /\ \A e \in tokenCache : \E s \in Slots : Wrote(s) /\ e = OwnRecord(s)
  /\ \A e1, e2 \in tokenCache : e1.key = e2.key => e1 = e2
  /\ \A s \in Slots :
       /\ calls[s].pc # "rejected"
       /\ calls[s].pc = "done" => calls[s].ret \in Nat

\* the cache changes only when one call writes, and then that call's record
\* is the path's entry, whatever another call had stored there before
C18_LastWriteStep ==
  tokenCache' # tokenCache =>
    \E s \in Slots :
      /\ ~Wrote(s) /\ Wrote(s)'
      /\ \A r \in Slots \ {s} : calls'[r] = calls[r]
      /\ MapGet(tokenCache', calls[s].path) = {OwnRecord(s)'}
      /\ \A e \in tokenCache : e.key # calls[s].path => e \in tokenCache'
      /\ \A e \in tokenCache' : e.key # calls[s].path => e \in tokenCache

\* C18: under any interleaving of getTokenCountForFile calls on one path every
\* call ends with a count; each cache entry is the whole record (modification
\* time, size, encoding, count) of one single call, and each write makes the
\* writer's record the path's entry (the last write wins).
C18_AtomicLastWriteWins == [](C18_EntryOfOneCall) /\ [][C18_LastWriteStep]_vars

\* two calls on one path were in flight together with different encodings or
\* different stats, both wrote, and the entry is the record of one of them and
\* not of the other
C18_Witness ==
  \E s, r \in Slots :
    /\ s # r
    /\ calls[s].path = calls[r].path
    /\ Wrote(s) /\ Wrote(r)
    /\ Head(calls[s].log) = "stat" /\ Head(calls[r].log) = "stat"
    /\ calls[s].stat # calls[r].stat
    /\ calls[s].enc # calls[r].enc
    /\ OwnRecord(s) # OwnRecord(r)
    /\ MapGet(tokenCache, calls[s].path) = {OwnRecord(r)}

\* one call has written while another on the same path, with another
\* encoding, is between its stat and its own write
C18_OverlapWitness ==
  \E s, r \in Slots :
    /\ s # r
    /\ calls[s].path = calls[r].path
    /\ calls[s].enc # calls[r].enc
    /\ Wrote(s)
    /\ calls[r].pc = "readDone" /\ calls[r].data.ok /\ calls[r].enc \in KnownEncodings
    /\ MapGet(tokenCache, calls[s].path) = {OwnRecord(s)}

\* ------------------------------------------------- the number of workers

\* the worker() calls made so far
Spawned == Cardinality({w \in Workers : wpc[w] # "none"})

\* the task invocations awaited right now
InFlight == Cardinality({w \in Workers : wpc[w] = "await"})

\* C19 as stated: for every item list, the empty one included, at most
\* min(limit, number of items) workers are spawned and at most that many tasks
\* are in flight.
C19_WorkersBoundedByItems ==
  ePc # "idle" =>
    /\ Spawned <= Min(limit, Len(items))
    /\ InFlight <= Min(limit, Len(items))

\* C19 (amended): min(limit, max(1, number of items)) workers are spawned, so
\* one worker for the empty list, which starts no task; at no moment are more
\* than min(limit, number of items) tasks in flight.
C19_WorkersAndTasksBounded ==
  ePc # "idle" =>
    /\ Spawned = Min(limit, Max(1, Len(items)))
    /\ InFlight <= Min(limit, Len(items))
    /\ Len(invoked) - Len(settled) = InFlight

\* the empty list under a positive limit: one worker was spawned and no task
\* was ever started
C19_Witness ==
  /\ ePc # "idle"
  /\ items = <<>>
  /\ limit >= 1
  /\ Spawned = 1
  /\ InFlight = 0
  /\ invoked = <<>>

\* more items than the limit, and as many tasks in flight as the limit allows
C19_SaturatedWitness ==
  /\ ePc = "running"
  /\ Len(items) > limit
  /\ limit > 1
  /\ Spawned = limit
  /\ InFlight = limit
  /\ Len(settled) > 0

\* ------------------------------------------------------------ termination

\* C20: when every task invocation eventually settles and the workers are
\* scheduled fairly, a mapWithConcurrency call under a positive limit
\* eventually returns, for every item list, the empty one included.
C20_CallEventuallyReturns ==
  (ePc = "running" /\ limit >= 1) ~> (ePc = "returned" /\ Len(output) = Len(items))

\* a call on more items than the limit, one of whose tasks failed, has returned
C20_Witness ==
  /\ ePc = "returned"
  /\ limit >= 1
  /\ Len(items) > limit
  /\ \E k \in DOMAIN items : items[k] \in failing /\ output[k] = Undefined
  /\ Len(settled) = Len(items)

\* a call on the empty list has returned the empty array
C20_EmptyListWitness ==
  /\ ePc = "returned"
  /\ items = <<>>
  /\ output = <<>>

\* ------------------------------------------------ the total of a batch

\* the sum of the values of a tokenCounts object
RECURSIVE SumOfValues(_, _)
SumOfValues(counts, keys) ==
  IF keys = {} THEN 0
  ELSE LET k == CHOOSE x \in keys : TRUE
       IN counts[k] + SumOfValues(counts, keys \ {k})

\* the request names a relative path more than once
HasDuplicate(files) == \E j, k \in DOMAIN files : j # k /\ files[j] = files[k]

\* C21: for every answered request, one that lists a relative path more than
\* once included, totalTokens is the sum of the values of tokenCounts.
C21_TotalIsSumOfCounts ==
  (hPc = "responded" /\ response.status = 200) =>
    response.totalTokens = SumOfValues(response.tokenCounts, DOMAIN response.tokenCounts)

\* a request that lists one existing file twice was answered: tokenCounts has
\* the file once, totalTokens has it twice
C21_Witness ==
  /\ hPc = "responded"
  /\ response.status = 200
  /\ Len(reqFiles) = 2
  /\ reqFiles[1] = reqFiles[2]
  /\ response.tokenCounts[reqFiles[1]] > 0
  /\ response.totalTokens >
       SumOfValues(response.tokenCounts, DOMAIN response.tokenCounts)

\* for a request that lists no path twice the total is the sum of the map, a
\* file that does not exist counting 0; in every case the total is the sum of
\* the counts the tasks returned, one per requested entry
C21_TotalOverEntries ==
  (hPc = "responded" /\ response.status = 200) =>
    /\ ~HasDuplicate(reqFiles) =>
         response.totalTokens =
           SumOfValues(response.tokenCounts, DOMAIN response.tokenCounts)
    /\ response.totalTokens =
         SumOfValues([k \in DOMAIN output |-> output[k].v.tokens], DOMAIN output)
    /\ \A k \in DOMAIN reqFiles :
         (\A s \in Slots : calls[s].path # Join(RepoRoot, reqFiles[k]) \/ calls[s].log = <<>>)
           => response.tokenCounts[reqFiles[k]] = 0

\* a request for two different files, one of them absent, was answered
C21_DistinctWitness ==
  /\ hPc = "responded"
  /\ response.status = 200
  /\ Len(reqFiles) = 2
  /\ reqFiles[1] # reqFiles[2]
  /\ response.tokenCounts[reqFiles[1]] > 0
  /\ response.tokenCounts[reqFiles[2]] = 0
  /\ response.totalTokens = response.tokenCounts[reqFiles[1]]

\* ------------------------------------------------------ formatFileTreeString

\* the positions of the line ends of a rendering
LineEnds(text) == {k \in DOMAIN text : text[k] = 10}

\* the k-th line of a rendering, without its line end
LineOf(text, k) ==
  LET last == CHOOSE e \in LineEnds(text) :
                Cardinality({m \in LineEnds(text) : m < e}) = k - 1
      before == {m \in LineEnds(text) : m < last}
      first == IF before = {} THEN 1 ELSE (CHOOSE m \in before : \A n \in before : n <= m) + 1
  IN SubSeq(text, first, last - 1)

\* where the branch symbol of a line stands
BranchAt(line) == CHOOSE k \in DOMAIN line : line[k] \in {9492, 9500}

\* how deep a line is nested: one indentation of four units per level
DepthOf(line) == (BranchAt(line) - 1) \div 4

\* the name a line shows, a directory's with its closing slash
NameOf(line) == SubSeq(line, BranchAt(line) + 4, Len(line))

\* the path a line stands for: its name under the path of the nearest line
\* above it that is nested one level less
RECURSIVE LinePath(_, _)
LinePath(text, k) ==
  LET line == LineOf(text, k)
      above == {j \in 1..(k - 1) : DepthOf(LineOf(text, j)) = DepthOf(line) - 1}
  IN IF DepthOf(line) = 0 THEN NameOf(line)
     ELSE IF above = {} THEN <<0>> \o NameOf(line)
     ELSE LinePath(text, CHOOSE j \in above : \A m \in above : m <= j) \o NameOf(line)

\* the directories of a path list, each with its closing slash
DirsOf(files) ==
  UNION {{SubSeq(files[k], 1, j) : j \in {m \in DOMAIN files[k] : files[k][m] = 47}} :
           k \in DOMAIN files}

\* a rendering shows every directory and every file of the list on exactly
\* one line, under the lines of its ancestors
ShowsEachOnce(render, files) ==
  /\ render.ok
  /\ LET n == Cardinality(LineEnds(render.text))
     IN /\ n = Len(files) + Cardinality(DirsOf(files))
        /\ {LinePath(render.text, k) : k \in 1..n} = ToSet(files) \cup DirsOf(files)
        /\ (render.text # <<>>) => render.text[Len(render.text)] = 10

\* C22: for every sorted duplicate-free path list, the rendering shows every
\* directory and every file on exactly one line under its ancestors' lines,
\* and every call on the list yields the same rendering.
C22_RendersEachOnce ==
  \A c \in DOMAIN tTexts :
    /\ ShowsEachOnce(tTexts[c], tFiles)
    /\ tTexts[c] = tTexts[1]

\* formatFileTreeString threw on a list with a directory named _files
C22_Witness ==
  /\ Len(tTexts) = MaxFormatCalls
  /\ \E k \in DOMAIN tFiles : HasFilesDir(tFiles[k])
  /\ \A c \in DOMAIN tTexts : ~tTexts[c].ok

\* what the code does guarantee: the claim for every list none of whose
\* directories is named _files
C22_RendersWithoutFilesDir ==
  (\A k \in DOMAIN tFiles : ~HasFilesDir(tFiles[k])) =>
    \A c \in DOMAIN tTexts :
      /\ ShowsEachOnce(tTexts[c], tFiles)
      /\ tTexts[c] = tTexts[1]

\* two renderings of a list of three paths with nested directories
C22_RenderedWitness ==
  /\ Len(tTexts) = MaxFormatCalls
  /\ Len(tFiles) = MaxTreeFiles
  /\ Cardinality(DirsOf(tFiles)) >= 2
  /\ \A c \in DOMAIN tTexts : ShowsEachOnce(tTexts[c], tFiles)

\* ------------------------------------------------------ the claim counter

\* how many times the task was invoked on index idx (0-based)
InvocationsOf(idx) == Cardinality({k \in DOMAIN invoked : invoked[k][1] = idx})

\* C23: under every interleaving and every number of workers, the indices are
\* claimed one by one, each by one worker, and the task is invoked once per
\* claimed index; two workers never hold the same index; once the call has
\* returned every index of the input was invoked exactly once.
C23_EachItemOnce ==
  /\ \A k \in DOMAIN invoked : invoked[k][1] = k - 1
  /\ Len(invoked) = i
  /\ i <= Len(items)
  /\ \A idx \in 0..(Len(items) - 1) : InvocationsOf(idx) = IF idx < i THEN 1 ELSE 0
  /\ \A w1, w2 \in Workers :
       (w1 # w2 /\ wpc[w1] = "await" /\ wpc[w2] = "await") => widx[w1] # widx[w2]
  /\ ePc = "returned" => \A idx \in 0..(Len(items) - 1) : InvocationsOf(idx) = 1

\* a call over three items with two workers has returned; both workers took
\* items, and the tasks did not settle in input order
C23_Witness ==
  /\ ePc = "returned"
  /\ Len(items) = 3
  /\ limit = 2
  /\ \A idx \in 0..2 : InvocationsOf(idx) = 1
  /\ {invoked[k][2] : k \in DOMAIN invoked} = {1, 2}
  /\ settled # <<0, 1, 2>>

\* --------------------------------------------------------- stale answers

\* call s is answered from the cache in this step
AnsweredFromCache(s) ==
  /\ calls[s].pc = "statted"
  /\ calls[s].stat.exists
  /\ calls'[s].pc = "done"

\* C24: when every modification changes the size or the modification time, a
\* call answered from the cache returns the tokenizer's count, under the
\* requested encoding, of the content the file had when the call's stat was
\* performed.
C24_NoStaleCount ==
  [][\A s \in Slots :
       AnsweredFromCache(s) =>
         calls'[s].ret = EncodeLength(calls[s].seen.content, calls[s].enc)]_vars

\* a call is about to be answered from the cache with a stale count: the file
\* is still as the call's stat saw it, after two modifications, and the entry
\* that matches the stat holds the count of a content the file had in between
C24_Witness ==
  \E s \in Slots :
    /\ calls[s].pc = "statted"
    /\ calls[s].stat.exists
    /\ calls[s].enc \in KnownEncodings
    /\ calls[s].seen = fs[calls[s].path]
    /\ fsOps >= 2
    /\ \E e \in MapGet(tokenCache, calls[s].path) :
         /\ CacheHit(e, calls[s].stat, calls[s].enc)
         /\ e.tokens # EncodeLength(calls[s].seen.content, calls[s].enc)

\* ------------------------------------------------- failed stat, failed read

\* call c has ended on a failed stat
EndedOnStatFailure(c) == c.pc = "done" /\ c.log = <<"stat">> /\ ~c.stat.exists

\* call c has ended on a failed read
EndedOnReadFailure(c) == c.pc = "done" /\ c.log = <<"stat", "read">>

\* the step in which call s learns that its stat or its read failed: the call
\* returns 0 and the cache is what it was
C25_FailureStep ==
  \A s \in Slots :
    ((calls[s].pc = "statted" /\ ~calls[s].stat.exists /\ calls'[s] # calls[s])
       \/ (calls[s].pc = "readDone" /\ ~calls[s].data.ok /\ calls'[s] # calls[s])) =>
      /\ calls'[s].pc = "done"
      /\ calls'[s].ret = 0
      /\ tokenCache' = tokenCache
      /\ \/ EndedOnStatFailure(calls'[s])
         \/ EndedOnReadFailure(calls'[s])

\* C25: a call that fails at stat or at read returns 0 and leaves the cache
\* as it was: nothing is added, and the entry stored for the path, if there
\* is one, is neither removed nor changed.
C25_FailureLeavesCache ==
  /\ [](\A s \in Slots :
          (EndedOnStatFailure(calls[s]) \/ EndedOnReadFailure(calls[s])) => calls[s].ret = 0)
  /\ [][C25_FailureStep]_vars

\* a call stored an entry and the file was modified; a second call on the
\* path statted the new file, which was deleted before the call's read; the
\* second call returned 0 and the first call's entry is still the path's entry
C25_Witness ==
  \E s, r \in Slots :
    /\ s # r
    /\ calls[s].path = calls[r].path
    /\ Wrote(s)
    /\ EndedOnReadFailure(calls[r])
    /\ calls[r].stat # calls[s].stat
    /\ calls[r].ret = 0
    /\ MapGet(tokenCache, calls[r].path) = {OwnRecord(s)}

\* a call on a deleted file returned 0 and the entry stored before the
\* deletion is still there
C25_StatFailureWitness ==
  \E s, r \in Slots :
    /\ s # r
    /\ calls[s].path = calls[r].path
    /\ Wrote(s)
    /\ EndedOnStatFailure(calls[r])
    /\ calls[r].ret = 0
    /\ MapGet(tokenCache, calls[r].path) = {OwnRecord(s)}

\* ------------------------------------------- one root per assembled prompt

\* the roots a finished assembly has used
RootsUsed == {aIgnoreRoot, aCwd, aPrinted} \cup ToSet(aReads)

\* C26: every prompt generateCompletePrompt returns was assembled against one
\* root, whatever change requests were served meanwhile: the ignore file, the
\* enumeration, the printed root and every file content read have one root.
C26_OneRootPerPrompt == aPc = "done" => Cardinality(RootsUsed) = 1

\* a prompt was returned whose printed root is not the root that was
\* enumerated, and whose two file contents come from two roots
C26_Witness ==
  /\ aPc = "done"
  /\ aPrinted # aCwd
  /\ Len(aReads) = 2
  /\ aReads[1] # aReads[2]

\* a change request was accepted while the assembly was running
ChangedMeanwhile ==
  \E k \in DOMAIN events : k > aSince /\ events[k].kind = "change" /\ events[k].status = 200

\* without an accepted change request during the assembly the prompt has one
\* root, the one in force at the call
C26_OneRootWithoutChange ==
  (aPc = "done" /\ ~ChangedMeanwhile) => RootsUsed = {repoPath}

\* a prompt with two file contents was returned while change requests were
\* refused, and all of it has the root in force
C26_UnchangedWitness ==
  /\ aPc = "done"
  /\ Len(aReads) = 2
  /\ Len(events) > aSince
  /\ ~ChangedMeanwhile
  /\ RootsUsed = {repoPath}

====
